---- MODULE Spec2Model ----
(***************************************************************************)
(* Zengin (total-transfer) fixed-width file conversion of craft-flow:      *)
(* app/utils/zengin.py (ZenginConverter) and the upload route's convert    *)
(* handler (app/routes/upload.py).                                         *)
(*                                                                         *)
(* Text is a sequence of Unicode code points, bytes are sequences of       *)
(* 0..255.  A Python str, a bytes object and a bytearray are therefore all *)
(* sequences of naturals; which one a sequence is follows from the         *)
(* operator that produced it.                                              *)
(***************************************************************************)
EXTENDS Integers, Sequences, FiniteSets, TLC

(***************************************************************************)
(* Bounds of the model.                                                    *)
(***************************************************************************)
\* Largest number of data rows of the uploaded sheet.
MaxRows == 2
\* The largest of the small record counts a trailer is built for.
MaxCount == 63
\* The largest target length _pad_string is called with on its own.
MaxPadLength == 4
\* Largest number of data rows of a sheet converted for a requester.
MaxRequestRows == 3
\* The seconds the clock can advance while files are saved.
MaxSeconds == 1
\* The number of PDF files saved to pos_sales one after the other.
MaxCalls == 3

(***************************************************************************)
(* Program constants.                                                      *)
(***************************************************************************)
RECORD_LENGTH == 120

\* error_rows[:10]: at most this many failing rows are put in the message.
MaxShownErrors == 10

(***************************************************************************)
(* Generic sequence helpers.                                               *)
(***************************************************************************)
Min(a, b) == IF a < b THEN a ELSE b

\* b * n for a bytes or str object b.
Repeat(s, n) == [i \in 1..(n * Len(s)) |-> s[((i - 1) % Len(s)) + 1]]

\* s[:n] of Python for n >= 0.
Take(s, n) == SubSeq(s, 1, Min(n, Len(s)))

\* s[n:] of Python for n >= 0.
Drop(s, n) == SubSeq(s, n + 1, Len(s))

\* s[:-i] of Python for i >= 1.
DropLast(s, i) == SubSeq(s, 1, Len(s) - i)

\* buf[pos : pos + n] = data on a bytearray (0-based pos): the slice is
\* replaced by data, whatever data's length, so the array may shrink or grow.
SliceAssign(buf, pos, n, data) ==
    Take(buf, pos) \o data \o Drop(buf, Min(pos + n, Len(buf)))

(***************************************************************************)
(* The shift_jis codec, on the characters the modelled inputs use:         *)
(* ASCII, the half-width katakana block U+FF61..U+FF9F (one byte each),    *)
(* the full-width characters of SJIS_DOUBLE (two bytes each), and          *)
(* characters shift_jis cannot encode (e.g. U+00E9).                       *)
(***************************************************************************)
SJIS_DOUBLE_TABLE ==
    <<
       <<12450, <<131, 65>>>>, <<12452, <<131, 67>>>>, <<12454, <<131, 69>>>>, <<12456, <<131, 71>>>>,
       <<12458, <<131, 73>>>>, <<12459, <<131, 74>>>>, <<12461, <<131, 76>>>>, <<12463, <<131, 78>>>>,
       <<12465, <<131, 80>>>>, <<12467, <<131, 82>>>>, <<12469, <<131, 84>>>>, <<12471, <<131, 86>>>>,
       <<12473, <<131, 88>>>>, <<12475, <<131, 90>>>>, <<12477, <<131, 92>>>>, <<12479, <<131, 94>>>>,
       <<12481, <<131, 96>>>>, <<12484, <<131, 99>>>>, <<12486, <<131, 101>>>>, <<12488, <<131, 103>>>>,
       <<12490, <<131, 105>>>>, <<12491, <<131, 106>>>>, <<12492, <<131, 107>>>>, <<12493, <<131, 108>>>>,
       <<12494, <<131, 109>>>>, <<12495, <<131, 110>>>>, <<12498, <<131, 113>>>>, <<12501, <<131, 116>>>>,
       <<12504, <<131, 119>>>>, <<12507, <<131, 122>>>>, <<12510, <<131, 125>>>>, <<12511, <<131, 126>>>>,
       <<12512, <<131, 128>>>>, <<12513, <<131, 129>>>>, <<12514, <<131, 130>>>>, <<12516, <<131, 132>>>>,
       <<12518, <<131, 134>>>>, <<12520, <<131, 136>>>>, <<12521, <<131, 137>>>>, <<12522, <<131, 138>>>>,
       <<12523, <<131, 139>>>>, <<12524, <<131, 140>>>>, <<12525, <<131, 141>>>>, <<12527, <<131, 143>>>>,
       <<12530, <<131, 146>>>>, <<12531, <<131, 147>>>>, <<12460, <<131, 75>>>>, <<12462, <<131, 77>>>>,
       <<12464, <<131, 79>>>>, <<12466, <<131, 81>>>>, <<12468, <<131, 83>>>>, <<12470, <<131, 85>>>>,
       <<12472, <<131, 87>>>>, <<12474, <<131, 89>>>>, <<12476, <<131, 91>>>>, <<12478, <<131, 93>>>>,
       <<12480, <<131, 95>>>>, <<12482, <<131, 97>>>>, <<12485, <<131, 100>>>>, <<12487, <<131, 102>>>>,
       <<12489, <<131, 104>>>>, <<12496, <<131, 111>>>>, <<12499, <<131, 114>>>>, <<12502, <<131, 117>>>>,
       <<12505, <<131, 120>>>>, <<12508, <<131, 123>>>>, <<12497, <<131, 112>>>>, <<12500, <<131, 115>>>>,
       <<12503, <<131, 118>>>>, <<12506, <<131, 121>>>>, <<12509, <<131, 124>>>>, <<12449, <<131, 64>>>>,
       <<12451, <<131, 66>>>>, <<12453, <<131, 68>>>>, <<12455, <<131, 70>>>>, <<12457, <<131, 72>>>>,
       <<12515, <<131, 131>>>>, <<12517, <<131, 133>>>>, <<12519, <<131, 135>>>>, <<12483, <<131, 98>>>>,
       <<12540, <<129, 91>>>>, <<12289, <<129, 65>>>>, <<12290, <<129, 66>>>>, <<12539, <<129, 69>>>>,
       <<12300, <<129, 117>>>>, <<12301, <<129, 118>>>>, <<12288, <<129, 64>>>>, <<23665, <<142, 82>>>>,
       <<30000, <<147, 99>>>>, <<37504, <<139, 226>>>>, <<34892, <<141, 115>>>>, <<25903, <<142, 120>>>>,
       <<24215, <<147, 88>>>>, <<26481, <<147, 140>>>>, <<20140, <<139, 158>>>>, <<65297, <<130, 80>>>>,
       <<65298, <<130, 81>>>>, <<65299, <<130, 82>>>>, <<65300, <<130, 83>>>>, <<65301, <<130, 84>>>>,
       <<65302, <<130, 85>>>>, <<65303, <<130, 86>>>>, <<65304, <<130, 87>>>>, <<65305, <<130, 88>>>>,
       <<65296, <<130, 79>>>>, <<177, <<129, 125>>>>
    >>

\* Character -> its two bytes.
SJIS_DOUBLE ==
    [c \in {SJIS_DOUBLE_TABLE[i][1] : i \in 1..Len(SJIS_DOUBLE_TABLE)} |->
        SJIS_DOUBLE_TABLE[CHOOSE i \in 1..Len(SJIS_DOUBLE_TABLE) : SJIS_DOUBLE_TABLE[i][1] = c][2]]

IsHankakuKana(c) == c >= 65377 /\ c <= 65439

\* One character under str.encode("shift_jis", errors="replace").
EncodeChar(c) ==
    IF c < 128 THEN <<c>>
    ELSE IF IsHankakuKana(c) THEN <<c - 65216>>
    ELSE IF c \in DOMAIN SJIS_DOUBLE THEN SJIS_DOUBLE[c]
    ELSE <<63>>

Encodable(c) == c < 128 \/ IsHankakuKana(c) \/ c \in DOMAIN SJIS_DOUBLE

\* str.encode("shift_jis", errors="replace")
\* (The recursions over a text split it in halves, so that their depth stays
\* logarithmic in its length.)
RECURSIVE EncodeRange(_, _, _)
EncodeRange(s, lo, hi) ==
    IF lo > hi THEN <<>>
    ELSE IF lo = hi THEN EncodeChar(s[lo])
    ELSE LET mid == (lo + hi) \div 2
         IN EncodeRange(s, lo, mid) \o EncodeRange(s, mid + 1, hi)

Encode(s) == EncodeRange(s, 1, Len(s))

\* str.encode("shift_jis"): raises UnicodeEncodeError on an unencodable character.
EncodeStrict(s) ==
    IF \A i \in 1..Len(s) : Encodable(s[i])
    THEN [ok |-> TRUE, b |-> Encode(s)]
    ELSE [ok |-> FALSE, b |-> <<>>]

IsLeadByte(b) == (b >= 129 /\ b <= 159) \/ (b >= 224 /\ b <= 252)

\* The character of each two-byte code, keyed by 256 * lead + trail.
SJIS_DECODE ==
    [k \in {256 * SJIS_DOUBLE[c][1] + SJIS_DOUBLE[c][2] : c \in DOMAIN SJIS_DOUBLE} |->
        CHOOSE c \in DOMAIN SJIS_DOUBLE : 256 * SJIS_DOUBLE[c][1] + SJIS_DOUBLE[c][2] = k]

\* The number of bytes in the lead-byte range directly before position i.
RECURSIVE LeadRun(_, _)
LeadRun(b, i) == IF i > 1 /\ IsLeadByte(b[i - 1]) THEN 1 + LeadRun(b, i - 1) ELSE 0

\* Position i starts a character when the decoder reads b from the left: a
\* byte in the lead range always takes the next byte with it.
IsStart(b, i) == LeadRun(b, i) % 2 = 0

IsSingleByte(h) == h < 128 \/ (h >= 161 /\ h <= 223)

\* A character start at which Python raises UnicodeDecodeError: a lead byte
\* without a valid trail byte, or a byte that starts no character.
BadStart(b, i) ==
    /\ IsStart(b, i)
    /\ ~IsSingleByte(b[i])
    /\ ~(IsLeadByte(b[i]) /\ i < Len(b) /\ (256 * b[i] + b[i + 1]) \in DOMAIN SJIS_DECODE)

RECURSIVE DecodeRange(_, _, _)
DecodeRange(b, lo, hi) ==
    IF lo > hi THEN <<>>
    ELSE IF lo = hi
    THEN (IF ~IsStart(b, lo) THEN <<>>
          ELSE IF b[lo] < 128 THEN <<b[lo]>>
          ELSE IF IsSingleByte(b[lo]) THEN <<b[lo] + 65216>>
          ELSE <<SJIS_DECODE[256 * b[lo] + b[lo + 1]]>>)
    ELSE LET mid == (lo + hi) \div 2
         IN DecodeRange(b, lo, mid) \o DecodeRange(b, mid + 1, hi)

\* bytes.decode("shift_jis"): [ok, s]; ok is FALSE where Python raises
\* UnicodeDecodeError.
Decode(b) ==
    IF \E i \in 1..Len(b) : BadStart(b, i)
    THEN [ok |-> FALSE, s |-> <<>>]
    ELSE [ok |-> TRUE, s |-> DecodeRange(b, 1, Len(b))]

\* utf-8 byte length of one character (the other encoding save_zengin_file takes).
Utf8Len(c) == IF c < 128 THEN 1 ELSE IF c < 2048 THEN 2 ELSE IF c < 65536 THEN 3 ELSE 4

(***************************************************************************)
(* Kana normalizer.                                                        *)
(***************************************************************************)
ZENKAKU_TO_HANKAKU_TABLE ==
    <<
       <<12450, <<65393>>>>, <<12452, <<65394>>>>, <<12454, <<65395>>>>, <<12456, <<65396>>>>,
       <<12458, <<65397>>>>, <<12459, <<65398>>>>, <<12461, <<65399>>>>, <<12463, <<65400>>>>,
       <<12465, <<65401>>>>, <<12467, <<65402>>>>, <<12469, <<65403>>>>, <<12471, <<65404>>>>,
       <<12473, <<65405>>>>, <<12475, <<65406>>>>, <<12477, <<65407>>>>, <<12479, <<65408>>>>,
       <<12481, <<65409>>>>, <<12484, <<65410>>>>, <<12486, <<65411>>>>, <<12488, <<65412>>>>,
       <<12490, <<65413>>>>, <<12491, <<65414>>>>, <<12492, <<65415>>>>, <<12493, <<65416>>>>,
       <<12494, <<65417>>>>, <<12495, <<65418>>>>, <<12498, <<65419>>>>, <<12501, <<65420>>>>,
       <<12504, <<65421>>>>, <<12507, <<65422>>>>, <<12510, <<65423>>>>, <<12511, <<65424>>>>,
       <<12512, <<65425>>>>, <<12513, <<65426>>>>, <<12514, <<65427>>>>, <<12516, <<65428>>>>,
       <<12518, <<65429>>>>, <<12520, <<65430>>>>, <<12521, <<65431>>>>, <<12522, <<65432>>>>,
       <<12523, <<65433>>>>, <<12524, <<65434>>>>, <<12525, <<65435>>>>, <<12527, <<65436>>>>,
       <<12530, <<65382>>>>, <<12531, <<65437>>>>, <<12460, <<65398, 65438>>>>, <<12462, <<65399, 65438>>>>,
       <<12464, <<65400, 65438>>>>, <<12466, <<65401, 65438>>>>, <<12468, <<65402, 65438>>>>, <<12470, <<65403, 65438>>>>,
       <<12472, <<65404, 65438>>>>, <<12474, <<65405, 65438>>>>, <<12476, <<65406, 65438>>>>, <<12478, <<65407, 65438>>>>,
       <<12480, <<65408, 65438>>>>, <<12482, <<65409, 65438>>>>, <<12485, <<65410, 65438>>>>, <<12487, <<65411, 65438>>>>,
       <<12489, <<65412, 65438>>>>, <<12496, <<65418, 65438>>>>, <<12499, <<65419, 65438>>>>, <<12502, <<65420, 65438>>>>,
       <<12505, <<65421, 65438>>>>, <<12508, <<65422, 65438>>>>, <<12497, <<65418, 65439>>>>, <<12500, <<65419, 65439>>>>,
       <<12503, <<65420, 65439>>>>, <<12506, <<65421, 65439>>>>, <<12509, <<65422, 65439>>>>, <<12449, <<65383>>>>,
       <<12451, <<65384>>>>, <<12453, <<65385>>>>, <<12455, <<65386>>>>, <<12457, <<65387>>>>,
       <<12515, <<65388>>>>, <<12517, <<65389>>>>, <<12519, <<65390>>>>, <<12483, <<65391>>>>,
       <<12540, <<65392>>>>, <<12289, <<65380>>>>, <<12290, <<65377>>>>, <<12539, <<65381>>>>,
       <<12300, <<65378>>>>, <<12301, <<65379>>>>, <<12288, <<32>>>>
    >>

\* ZenginConverter.ZENKAKU_TO_HANKAKU as a function.
ZENKAKU_TO_HANKAKU ==
    [c \in {ZENKAKU_TO_HANKAKU_TABLE[i][1] : i \in 1..Len(ZENKAKU_TO_HANKAKU_TABLE)} |->
        ZENKAKU_TO_HANKAKU_TABLE[CHOOSE i \in 1..Len(ZENKAKU_TO_HANKAKU_TABLE) : ZENKAKU_TO_HANKAKU_TABLE[i][1] = c][2]]

\* Fault: a voiced kana mapped to the full-width kana before it and the
\* half-width sound mark, e.g. "ガ" to "カﾞ" instead of "ｶﾞ".
RECURSIVE to_hankaku_range_half_decomposed(_, _, _)
to_hankaku_range_half_decomposed(text, lo, hi) ==
    IF lo > hi THEN <<>>
    ELSE IF lo = hi
    THEN (IF text[lo] \in DOMAIN ZENKAKU_TO_HANKAKU
          THEN (IF Len(ZENKAKU_TO_HANKAKU[text[lo]]) = 2
                THEN <<text[lo] - 1, ZENKAKU_TO_HANKAKU[text[lo]][2]>>
                ELSE ZENKAKU_TO_HANKAKU[text[lo]])
          ELSE <<text[lo]>>)
    ELSE LET mid == (lo + hi) \div 2
         IN to_hankaku_range_half_decomposed(text, lo, mid)
               \o to_hankaku_range_half_decomposed(text, mid + 1, hi)

\* ZenginConverter._to_hankaku_kana
RECURSIVE to_hankaku_range(_, _, _)
to_hankaku_range(text, lo, hi) ==
    IF lo > hi THEN <<>>
    ELSE IF lo = hi
    THEN (IF text[lo] \in DOMAIN ZENKAKU_TO_HANKAKU
          THEN ZENKAKU_TO_HANKAKU[text[lo]]
          ELSE <<text[lo]>>)
    ELSE LET mid == (lo + hi) \div 2
         IN to_hankaku_range(text, lo, mid) \o to_hankaku_range(text, mid + 1, hi)

to_hankaku_kana(text) == to_hankaku_range(text, 1, Len(text))

(***************************************************************************)
(* Byte-exact field packer.                                                *)
(***************************************************************************)
\* (A value that is used more than once is passed as a parameter of a helper
\* operator, value_bytes of _pad_string to pad_bytes for example.)

\* Fault: the back-off of _pad_string without the spaces that restore the
\* length (lines 185 and 191 returning decoded alone).
pad_string_backoff_unfilled(truncated) ==
    IF Decode(DropLast(truncated, 1)).ok
    THEN [ok |-> TRUE, s |-> Decode(DropLast(truncated, 1)).s]
    ELSE IF Decode(DropLast(truncated, 2)).ok
    THEN [ok |-> TRUE, s |-> Decode(DropLast(truncated, 2)).s]
    ELSE [ok |-> FALSE, s |-> <<>>]

\* The truncation branch of _pad_string after truncated.decode() raised:
\* for i in range(1, 3), the first i for which truncated[:-i] decodes gives
\* result = decoded + " " * i; when no i does, result is never bound and the
\* return raises (ok = FALSE).
pad_string_backoff(truncated) ==
    IF Decode(DropLast(truncated, 1)).ok
    THEN [ok |-> TRUE, s |-> Decode(DropLast(truncated, 1)).s \o <<32>>]
    ELSE IF Decode(DropLast(truncated, 2)).ok
    THEN [ok |-> TRUE, s |-> Decode(DropLast(truncated, 2)).s \o <<32, 32>>]
    ELSE [ok |-> FALSE, s |-> <<>>]

\* Fault: the truncated bytes decoded without the back-off of lines 184-193.
pad_string_truncate_no_backoff(truncated) == Decode(truncated)

\* The truncation branch of _pad_string (lines 178-194).
pad_string_truncate(truncated) ==
    IF Decode(truncated).ok THEN Decode(truncated) ELSE pad_string_backoff(truncated)

\* _pad_string from value_bytes and fill_bytes on (lines 175-205).
pad_bytes(value_bytes, fill_bytes, length, align) ==
    IF Len(value_bytes) > length
    THEN pad_string_truncate(Take(value_bytes, length))
    ELSE IF align = "right"
    THEN Decode(Repeat(fill_bytes, length - Len(value_bytes)) \o value_bytes)
    ELSE Decode(value_bytes \o Repeat(fill_bytes, length - Len(value_bytes)))

\* ZenginConverter._pad_string(value, length, fill_char, align), encoding shift_jis.
\* [ok, s]: ok is FALSE where the Python raises.
pad_string(value, length, fill_char, align) ==
    pad_bytes(Encode(value), Encode(fill_char), length, align)

(***************************************************************************)
(* Cell values of a row (row.to_dict() of a pandas row):                   *)
(*   [t |-> "nan"]                      float NaN, an empty cell           *)
(*   [t |-> "str", s |-> text]          str                                *)
(*   [t |-> "int", neg, d]              numpy.int64; d its decimal digits  *)
(*   [t |-> "float", neg, d, f]         numpy.float64 with integer part d  *)
(*                                      and fraction digits f              *)
(* numpy.int64 is not an instance of int, numpy.float64 is one of float.   *)
(***************************************************************************)
NaN == [t |-> "nan"]
Str(s) == [t |-> "str", s |-> s]
Int64(d) == [t |-> "int", neg |-> FALSE, d |-> d]
Float64(d, f) == [t |-> "float", neg |-> FALSE, d |-> d, f |-> f]

\* pd.isna(value)
isna(v) == v.t = "nan"

\* Decimal digits (most significant first) as text.
DigitText(d) == [i \in 1..Len(d) |-> 48 + d[i]]

\* str(value)
str(v) ==
    CASE v.t = "nan" -> <<110, 97, 110>>
      [] v.t = "str" -> v.s
      [] v.t = "int" -> (IF v.neg THEN <<45>> ELSE <<>>) \o DigitText(v.d)
      [] v.t = "float" -> (IF v.neg THEN <<45>> ELSE <<>>) \o DigitText(v.d)
                             \o <<46>> \o DigitText(v.f)

\* str.isspace() of one character: ASCII white space and U+3000.
IsSpace(c) == c \in {9, 10, 11, 12, 13, 32, 12288}

\* str.strip()
RECURSIVE lstrip(_)
lstrip(s) == IF s # <<>> /\ IsSpace(Head(s)) THEN lstrip(Tail(s)) ELSE s

RECURSIVE rstrip(_)
rstrip(s) == IF s # <<>> /\ IsSpace(s[Len(s)]) THEN rstrip(DropLast(s, 1)) ELSE s

strip(s) == rstrip(lstrip(s))

\* A decimal digit character in the sense of float() and int(): ASCII or full-width.
IsDecimalChar(c) == (c >= 48 /\ c <= 57) \/ (c >= 65296 /\ c <= 65305)

DecimalValue(c) == IF c <= 57 THEN c - 48 ELSE c - 65296

\* A character str.isdigit() takes for a digit: a decimal digit or a
\* superscript digit ("²", "³", "¹"), which float() and int() do not take.
IsDigitChar(c) == IsDecimalChar(c) \/ c \in {178, 179, 185}

\* str.isdigit(): non-empty and every character a digit.
isdigit(s) == s # <<>> /\ \A i \in 1..Len(s) : IsDigitChar(s[i])

\* str.replace(",", "")
remove_commas(s) == SelectSeq(s, LAMBDA c : c # 44)

(***************************************************************************)
(* Unbounded naturals as decimal digit sequences, most significant first   *)
(* (Python ints do not overflow; amounts have up to 10 digits and more).   *)
(***************************************************************************)
RECURSIVE StripZeros(_)
StripZeros(d) == IF Len(d) > 1 /\ Head(d) = 0 THEN StripZeros(Tail(d)) ELSE d

Reverse(s) == [i \in 1..Len(s) |-> s[Len(s) + 1 - i]]

RECURSIVE AddRev(_, _, _)
AddRev(a, b, carry) ==
    IF a = <<>> /\ b = <<>> THEN (IF carry = 0 THEN <<>> ELSE <<carry>>)
    ELSE LET x == IF a = <<>> THEN 0 ELSE Head(a)
             y == IF b = <<>> THEN 0 ELSE Head(b)
             t == x + y + carry
         IN <<t % 10>> \o AddRev(IF a = <<>> THEN <<>> ELSE Tail(a),
                                 IF b = <<>> THEN <<>> ELSE Tail(b), t \div 10)

\* a + b
Add(a, b) == StripZeros(Reverse(AddRev(Reverse(a), Reverse(b), 0)))

IsZero(d) == \A i \in 1..Len(d) : d[i] = 0

\* Digits of a small natural (a count of records).
RECURSIVE NatDigits(_)
NatDigits(n) == IF n < 10 THEN <<n>> ELSE NatDigits(n \div 10) \o <<n % 10>>

\* int(float(s)): [ok, neg, d]; ok is FALSE where float() or int() raises ValueError.
\* float() strips white space, takes an optional sign, decimal digits and at most
\* one point; "nan" parses and int() of it raises.  The value is truncated
\* toward zero.  (Exact for fewer than 16 digits.)
int_float(s) ==
    LET u == strip(s)
        signed == u # <<>> /\ Head(u) \in {43, 45}
        body == IF signed THEN Tail(u) ELSE u
        points == {i \in 1..Len(body) : body[i] = 46}
        p == IF points = {} THEN Len(body) + 1 ELSE CHOOSE i \in points : TRUE
        ip == SubSeq(body, 1, p - 1)
        fp == SubSeq(body, p + 1, Len(body))
        wellformed == /\ Cardinality(points) <= 1
                      /\ Len(ip) + Len(fp) >= 1
                      /\ \A i \in 1..Len(ip) : IsDecimalChar(ip[i])
                      /\ \A i \in 1..Len(fp) : IsDecimalChar(fp[i])
        d == StripZeros(<<0>> \o [i \in 1..Len(ip) |-> DecimalValue(ip[i])])
    IN IF wellformed
       THEN [ok |-> TRUE, neg |-> signed /\ Head(u) = 45 /\ ~IsZero(d), d |-> d]
       ELSE [ok |-> FALSE, neg |-> FALSE, d |-> <<0>>]

(***************************************************************************)
(* Row validator.  A reason is <<rule, field>>; the Python message also    *)
(* quotes the offending value.                                             *)
(***************************************************************************)
\* ZenginConverter._validate_numeric: [ok, value, reason]; ok is FALSE where it
\* raises ZenginFormatError(reason).
validate_numeric(value, field_name, max_digits) ==
    LET str_value == strip(str(value)) IN
    IF isna(value)
    THEN [ok |-> FALSE, value |-> <<>>, reason |-> <<"empty", field_name>>]
    ELSE IF ~isdigit(str_value)
    THEN [ok |-> FALSE, value |-> <<>>, reason |-> <<"not_numeric", field_name>>]
    ELSE IF max_digits # 0 /\ Len(str_value) > max_digits
    THEN [ok |-> FALSE, value |-> <<>>, reason |-> <<"too_many_digits", field_name>>]
    ELSE [ok |-> TRUE, value |-> str_value, reason |-> <<>>]

\* "field in row and not pd.isna(row[field])"
Present(row, field) == field \in DOMAIN row /\ ~isna(row[field])

required_fields == <<"bank_code", "branch_code", "account_number", "recipient_name", "amount">>

\* The check of one numeric code in validate_customer_data (lines 259-284).
numeric_errors(row, field, max_digits) ==
    IF Present(row, field)
    THEN LET r == validate_numeric(row[field], field, max_digits) IN
         IF ~r.ok THEN <<r.reason>>
         ELSE IF Len(r.value) > max_digits THEN <<<<"over_length", field>>>>
         ELSE <<>>
    ELSE <<>>

\* The integer both validate_customer_data and convert_row_to_record take for
\* the amount cell: int(x) for a float, int(float(str(x).replace(",", "").strip()))
\* otherwise.
amount_value(v) ==
    IF v.t = "float"
    THEN [ok |-> TRUE, neg |-> v.neg /\ ~IsZero(v.d), d |-> StripZeros(v.d)]
    ELSE int_float(strip(remove_commas(str(v))))

account_type_names == {<<49>>, <<50>>, <<26222, 36890>>, <<24403, 24231>>}

\* The required-field check (lines 253-257).
required_errors(row) ==
    [k \in 1..Len(SelectSeq(required_fields, LAMBDA f : ~Present(row, f))) |->
        <<"required", SelectSeq(required_fields, LAMBDA f : ~Present(row, f))[k]>>]

\* The account-category check (lines 286-291).
type_errors(row) ==
    IF Present(row, "account_type")
       /\ strip(str(row["account_type"])) \notin account_type_names
    THEN <<<<"invalid", "account_type">>>> ELSE <<>>

\* The amount check (lines 293-306) on the parsed amount a.
amount_reasons(a) ==
    IF ~a.ok THEN <<<<"bad_format", "amount">>>>
    ELSE IF a.neg \/ IsZero(a.d) THEN <<<<"not_positive", "amount">>>>
    ELSE <<>>

amount_errors(row) ==
    IF Present(row, "amount") THEN amount_reasons(amount_value(row["amount"])) ELSE <<>>

\* Fault: a recipient name checked for being empty only (lines 313-318 missing).
name_reasons_no_length_check(recipient_name) ==
    IF Len(recipient_name) = 0 THEN <<<<"empty", "recipient_name">>>> ELSE <<>>

\* The recipient-name check (lines 308-318) on the stripped name.
name_reasons(recipient_name) ==
    IF Len(recipient_name) = 0 THEN <<<<"empty", "recipient_name">>>>
    ELSE IF Len(Encode(to_hankaku_kana(recipient_name))) > 30
    THEN <<<<"too_long", "recipient_name">>>>
    ELSE <<>>

name_errors(row) ==
    IF Present(row, "recipient_name")
    THEN name_reasons(strip(str(row["recipient_name"])))
    ELSE <<>>

\* Fault: validation that returns at the first rule that fails.
validate_customer_data_fail_fast(row) ==
    IF required_errors(row) # <<>> THEN Take(required_errors(row), 1)
    ELSE IF numeric_errors(row, "bank_code", 4) # <<>> THEN numeric_errors(row, "bank_code", 4)
    ELSE IF numeric_errors(row, "branch_code", 3) # <<>>
    THEN numeric_errors(row, "branch_code", 3)
    ELSE IF numeric_errors(row, "account_number", 7) # <<>>
    THEN numeric_errors(row, "account_number", 7)
    ELSE IF type_errors(row) # <<>> THEN type_errors(row)
    ELSE IF amount_errors(row) # <<>> THEN amount_errors(row)
    ELSE name_errors(row)

\* ZenginConverter.validate_customer_data: the list of reasons, in the order the
\* code appends them; the row is valid when the list is empty.
validate_customer_data(row) ==
    required_errors(row)
       \o numeric_errors(row, "bank_code", 4)
       \o numeric_errors(row, "branch_code", 3)
       \o numeric_errors(row, "account_number", 7)
       \o type_errors(row) \o amount_errors(row) \o name_errors(row)

is_valid(row) == validate_customer_data(row) = <<>>

(***************************************************************************)
(* Record encoder.                                                         *)
(***************************************************************************)
\* ZenginConverter.FIELD_DEFINITIONS: position (0-based) and byte length.
FIELD_DEFINITIONS ==
    [data_type      |-> [pos |-> 0,   length |-> 1],
     bank_code      |-> [pos |-> 1,   length |-> 4],
     bank_name      |-> [pos |-> 5,   length |-> 15],
     branch_code    |-> [pos |-> 20,  length |-> 3],
     branch_name    |-> [pos |-> 23,  length |-> 15],
     clearing_house |-> [pos |-> 38,  length |-> 4],
     account_type   |-> [pos |-> 42,  length |-> 1],
     account_number |-> [pos |-> 43,  length |-> 7],
     recipient_name |-> [pos |-> 50,  length |-> 30],
     amount         |-> [pos |-> 80,  length |-> 10],
     new_code       |-> [pos |-> 90,  length |-> 1],
     customer_code1 |-> [pos |-> 91,  length |-> 10],
     customer_code2 |-> [pos |-> 101, length |-> 10],
     transfer_type  |-> [pos |-> 111, length |-> 1],
     identification |-> [pos |-> 112, length |-> 1],
     dummy          |-> [pos |-> 113, length |-> 7]]

\* row.get(key, default)
Get(row, key, default) == IF key \in DOMAIN row THEN row[key] ELSE default

\* str.lower() on ASCII letters.
lower(s) == [i \in 1..Len(s) |-> IF s[i] >= 65 /\ s[i] <= 90 THEN s[i] + 32 ELSE s[i]]

\* .encode("shift_jis") of a _pad_string result p: [ok, b].
encode_padded(p) == [ok |-> p.ok /\ EncodeStrict(p.s).ok, b |-> EncodeStrict(p.s).b]

\* _pad_string(...) followed by .encode("shift_jis"): [ok, b].
packed(value, length, fill_char, align) ==
    encode_padded(pad_string(value, length, fill_char, align))

\* One assignment to record_bytes: record_bytes[pos : pos + n] = data.
\* ok is FALSE when evaluating the statement raises.
Write(field, pos, n, data, ok) ==
    [field |-> field, pos |-> pos, n |-> n, data |-> data, ok |-> ok]

\* record_bytes[pos : pos + len(bytes)] = bytes
WriteAll(field, pos, pk) == Write(field, pos, Len(pk.b), pk.b, pk.ok)

\* record_bytes[pos : pos + n] = bytes[:n]
WriteCut(field, pos, n, pk) == Write(field, pos, n, Take(pk.b, n), pk.ok)

\* record_bytes[pos] = ord(text): TypeError unless text is one character,
\* ValueError unless the code point is a byte.
WriteOrd(field, pos, text) ==
    Write(field, pos, 1, IF Len(text) = 1 THEN <<text[1]>> ELSE <<>>,
          Len(text) = 1 /\ text[1] < 256)

\* Fault: a numeric code padded to one byte more than its field.
WriteCode_one_wider(field, pos, code, length) ==
    Write(field, pos, Len(packed(code.value, length + 1, <<48>>, "right").b),
          packed(code.value, length + 1, <<48>>, "right").b,
          code.ok /\ packed(code.value, length + 1, <<48>>, "right").ok)

\* A numeric code: code = _validate_numeric(...) (code.ok is FALSE where it
\* raises), padded with zeros on the left and written whole.
WriteCode(field, pos, code, length) ==
    Write(field, pos, Len(packed(code.value, length, <<48>>, "right").b),
          packed(code.value, length, <<48>>, "right").b,
          code.ok /\ packed(code.value, length, <<48>>, "right").ok)

\* The text convert_row_to_record takes from an optional cell: str(row.get(key, default)).strip()
cell_text(row, key, default) == strip(str(Get(row, key, Str(default))))

\* The account-category code convert_row_to_record resolves (lines 390-398)
\* from account_type = str(row.get("account_type", "1")).strip().
resolve_account_type(account_type) ==
    IF account_type = <<26222, 36890>> \/ lower(account_type) = <<102, 117, 116, 115, 117>>
    THEN <<49>>
    ELSE IF account_type = <<24403, 24231>> \/ lower(account_type) = <<116, 111, 122, 97>>
    THEN <<50>>
    ELSE IF account_type = <<36015, 33988>>
            \/ lower(account_type) = <<99, 104, 111, 99, 104, 105, 107, 117>>
    THEN <<52>>
    ELSE IF account_type \notin {<<49>>, <<50>>, <<52>>, <<57>>} THEN <<49>>
    ELSE account_type

account_type_code(row) == resolve_account_type(cell_text(row, "account_type", <<49>>))

\* The new/continuing flag convert_row_to_record resolves (lines 428-430).
resolve_new_code(new_code) == IF new_code \notin {<<49>>, <<50>>} THEN <<49>> ELSE new_code

new_code_value(row) == resolve_new_code(cell_text(row, "new_code", <<49>>))

\* The decimal text of the amount of a validated row: str(amount_value).
amount_text(a) == (IF a.neg THEN <<45>> ELSE <<>>) \o DigitText(a.d)

\* The assignments convert_row_to_record makes to record_bytes, in program
\* order, for a row that passed validation (lines 349-449).
field_writes(row) ==
    << WriteOrd("data_type", FIELD_DEFINITIONS["data_type"].pos, <<50>>),
       WriteCode("bank_code", FIELD_DEFINITIONS["bank_code"].pos,
                 validate_numeric(row["bank_code"], "bank_code", 4), 4),
       WriteCut("bank_name", FIELD_DEFINITIONS["bank_name"].pos, 15,
                packed(to_hankaku_kana(cell_text(row, "bank_name", <<>>)), 15, <<32>>, "left")),
       WriteCode("branch_code", FIELD_DEFINITIONS["branch_code"].pos,
                 validate_numeric(row["branch_code"], "branch_code", 3), 3),
       WriteCut("branch_name", FIELD_DEFINITIONS["branch_name"].pos, 15,
                packed(to_hankaku_kana(cell_text(row, "branch_name", <<>>)), 15, <<32>>, "left")),
       WriteAll("clearing_house", FIELD_DEFINITIONS["clearing_house"].pos,
                packed(cell_text(row, "clearing_house", <<48, 48, 48, 48>>), 4, <<48>>, "right")),
       WriteOrd("account_type", FIELD_DEFINITIONS["account_type"].pos, account_type_code(row)),
       WriteCode("account_number", FIELD_DEFINITIONS["account_number"].pos,
                 validate_numeric(row["account_number"], "account_number", 7), 7),
       WriteCut("recipient_name", FIELD_DEFINITIONS["recipient_name"].pos, 30,
                packed(to_hankaku_kana(strip(str(row["recipient_name"]))), 30, <<32>>, "left")),
       WriteAll("amount", FIELD_DEFINITIONS["amount"].pos,
                packed(amount_text(amount_value(row["amount"])), 10, <<48>>, "right")),
       WriteOrd("new_code", FIELD_DEFINITIONS["new_code"].pos, new_code_value(row)),
       WriteCut("customer_code1", FIELD_DEFINITIONS["customer_code1"].pos, 10,
                packed(cell_text(row, "customer_code1", <<>>), 10, <<32>>, "left")),
       WriteCut("customer_code2", FIELD_DEFINITIONS["customer_code2"].pos, 10,
                packed(cell_text(row, "customer_code2", <<>>), 10, <<32>>, "left")),
       WriteOrd("transfer_type", FIELD_DEFINITIONS["transfer_type"].pos,
                cell_text(row, "transfer_type", <<48>>)) >>

\* record_bytes after the first k assignments of ws, starting from 120 spaces.
RECURSIVE apply_writes(_, _)
apply_writes(ws, k) ==
    IF k = 0 THEN Repeat(<<32>>, RECORD_LENGTH)
    ELSE SliceAssign(apply_writes(ws, k - 1), ws[k].pos, ws[k].n, ws[k].data)

\* The end of convert_row_to_record: record_bytes.decode("shift_jis") (line 455).
decode_record(rec) ==
    IF rec.ok THEN [status |-> "ok", record |-> rec.s, errors |-> <<>>]
    ELSE [status |-> "Exception", record |-> <<>>, errors |-> <<>>]

\* convert_row_to_record after validation, given its assignments ws.
encode_row(ws) ==
    IF \E k \in 1..Len(ws) : ~ws[k].ok
    THEN [status |-> "Exception", record |-> <<>>, errors |-> <<>>]
    ELSE decode_record(Decode(apply_writes(ws, Len(ws))))

\* convert_row_to_record given the reasons validate_customer_data returned.
convert_validated(row, errors) ==
    IF errors # <<>>
    THEN [status |-> "ZenginFormatError", record |-> <<>>, errors |-> errors]
    ELSE encode_row(field_writes(row))

\* ZenginConverter.convert_row_to_record: [status, record, errors].
\*   "ok"                 the decoded record
\*   "ZenginFormatError"  validation failed; errors holds the reasons
\*   "Exception"          another exception (TypeError or ValueError of an
\*                        ord() assignment, UnicodeDecodeError of the final decode)
convert_row_to_record(row) == convert_validated(row, validate_customer_data(row))

(***************************************************************************)
(* Header, trailer and end records.                                        *)
(***************************************************************************)
\* ZenginConverter.create_header_record(record_count, date=None); mmdd is
\* date.strftime("%m%d") of datetime.now().  The assignments, innermost first:
\* type 1, kind 21, code 0, requester code (""), requester name (""), date,
\* sending bank 0000 and its name (""), sending branch 000 and its name (""),
\* account category 1, account number 0000000.
create_header_record(record_count, mmdd) ==
    Decode(
      SliceAssign(SliceAssign(SliceAssign(SliceAssign(SliceAssign(SliceAssign(
      SliceAssign(SliceAssign(SliceAssign(SliceAssign(SliceAssign(SliceAssign(
        Repeat(<<32>>, RECORD_LENGTH),
        0, 1, <<49>>),
        1, 2, <<50, 49>>),
        3, 1, <<48>>),
        4, 10, Take(packed(<<>>, 10, <<32>>, "left").b, 10)),
        14, 40, Take(packed(to_hankaku_kana(<<>>), 40, <<32>>, "left").b, 40)),
        54, 4, EncodeStrict(mmdd).b),
        58, 4, <<48, 48, 48, 48>>),
        62, 15, Take(packed(to_hankaku_kana(<<>>), 15, <<32>>, "left").b, 15)),
        77, 3, <<48, 48, 48>>),
        80, 15, Take(packed(to_hankaku_kana(<<>>), 15, <<32>>, "left").b, 15)),
        95, 1, <<49>>),
        96, 7, <<48, 48, 48, 48, 48, 48, 48>>)).s

\* ZenginConverter.create_trailer_record(record_count, total_amount);
\* total_amount is given by its decimal digits.  Type 8, the count in 6 digits,
\* the total in 12 digits.
create_trailer_record(record_count, total_amount) ==
    Decode(
      SliceAssign(SliceAssign(SliceAssign(
        Repeat(<<32>>, RECORD_LENGTH),
        0, 1, <<56>>),
        1, 6, packed(DigitText(NatDigits(record_count)), 6, <<48>>, "right").b),
        7, 12, packed(DigitText(total_amount), 12, <<48>>, "right").b)).s

\* Fault: an end record that writes record_count, six digits at bytes 1..6.
create_end_record_with_count(record_count) ==
    Decode(
      SliceAssign(SliceAssign(
        Repeat(<<32>>, RECORD_LENGTH),
        0, 1, <<57>>),
        1, 6, packed(DigitText(NatDigits(record_count)), 6, <<48>>, "right").b)).s

\* ZenginConverter.create_end_record(record_count): type 9; record_count is not used.
create_end_record(record_count) ==
    Decode(SliceAssign(Repeat(<<32>>, RECORD_LENGTH), 0, 1, <<57>>)).s

(***************************************************************************)
(* Byte-stream writer.                                                     *)
(***************************************************************************)
RECURSIVE Utf8Range(_, _, _)
Utf8Range(s, lo, hi) ==
    IF lo > hi THEN 0
    ELSE IF lo = hi THEN Utf8Len(s[lo])
    ELSE LET mid == (lo + hi) \div 2
         IN Utf8Range(s, lo, mid) + Utf8Range(s, mid + 1, hi)

Utf8Length(s) == Utf8Range(s, 1, Len(s))

\* One character under str.encode("utf-8").
Utf8Char(c) ==
    IF c < 128 THEN <<c>>
    ELSE IF c < 2048 THEN <<192 + (c \div 64), 128 + (c % 64)>>
    ELSE IF c < 65536
    THEN <<224 + (c \div 4096), 128 + ((c \div 64) % 64), 128 + (c % 64)>>
    ELSE <<240 + (c \div 262144), 128 + ((c \div 4096) % 64), 128 + ((c \div 64) % 64),
           128 + (c % 64)>>

RECURSIVE Utf8EncodeRange(_, _, _)
Utf8EncodeRange(s, lo, hi) ==
    IF lo > hi THEN <<>>
    ELSE IF lo = hi THEN Utf8Char(s[lo])
    ELSE LET mid == (lo + hi) \div 2
         IN Utf8EncodeRange(s, lo, mid) \o Utf8EncodeRange(s, mid + 1, hi)

\* str.encode("utf-8")
Utf8Encode(s) == Utf8EncodeRange(s, 1, Len(s))

\* The codec Python looks up for an encoding name: "sjis" is an alias of
\* "shift_jis".
codec_of(encoding) == IF encoding \in {"shift_jis", "sjis"} THEN "shift_jis" ELSE "utf-8"

\* The text s in the bytes of a codec, errors="replace".
EncodeAs(s, codec) == IF codec = "shift_jis" THEN Encode(s) ELSE Utf8Encode(s)

\* len(record.encode(encoding, errors="replace"))
EncodedLength(s, encoding) ==
    IF codec_of(encoding) = "shift_jis" THEN Len(Encode(s)) ELSE Utf8Length(s)

\* The record check of save_zengin_file (lines 798-807): the 1-based positions
\* of the records whose encoded length is not RECORD_LENGTH.
bad_records(records, encoding) ==
    {i \in 1..Len(records) : EncodedLength(records[i], encoding) # RECORD_LENGTH}

\* Fault: the check goes through all records and reports the last offender.
last_bad_record(records, encoding) ==
    CHOOSE i \in bad_records(records, encoding) :
        \A j \in bad_records(records, encoding) : j <= i

\* The record the check loop stops at, counted from 1 (the "i + 1" of the
\* message, line 804).
first_bad_record(records, encoding) ==
    CHOOSE i \in bad_records(records, encoding) :
        \A j \in bad_records(records, encoding) : i <= j

\* ZenginFormatError("レコード {i + 1} の長さが不正です: {byte_length}バイト ...")
\* for the record at position i.
length_error(records, encoding, i) ==
    [msg |-> "record_length", rows |-> <<>>, record |-> i,
     byte_length |-> EncodedLength(records[i], encoding)]

\* The codec the file is opened with (lines 812-814 and 824-826): shift_jis
\* for the name "shift_jis", utf-8 for every other name.
open_codec(encoding) == IF encoding = "shift_jis" THEN "shift_jis" ELSE "utf-8"

\* The file is written with strict error handling: the number of records
\* written before one that the codec of the file cannot encode (all of them
\* when there is none).
RECURSIVE writable_prefix(_, _, _)
writable_prefix(records, codec, n) ==
    IF n = Len(records) THEN n
    ELSE IF codec = "shift_jis" /\ ~EncodeStrict(records[n + 1]).ok THEN n
    ELSE writable_prefix(records, codec, n + 1)

\* f.write(record) and f.write(newline) for the first n records
\* (lines 815-822, 827-834).
RECURSIVE written_bytes(_, _, _, _)
written_bytes(records, n, codec, newline) ==
    IF n = 0 THEN <<>>
    ELSE written_bytes(records, n - 1, codec, newline)
            \o EncodeAs(records[n], codec) \o newline

(***************************************************************************)
(* Inputs: the rows of the uploaded sheet.                                 *)
(***************************************************************************)
AllColumns ==
    {"bank_code", "bank_name", "branch_code", "branch_name", "clearing_house",
     "account_type", "account_number", "recipient_name", "amount", "new_code",
     "customer_code1", "customer_code2", "transfer_type"}

\* A sheet without the optional columns.
RequiredColumns ==
    {"bank_code", "branch_code", "account_type", "account_number", "recipient_name",
     "amount"}

ColumnSets == {AllColumns, RequiredColumns}

\* bank 9, branch 1, account 42, ordinary, "ヤマダ　タロウ", amount "1,000".
RowYamada ==
    [bank_code |-> Str(<<57>>), bank_name |-> Str(<<12511, 12474, 12507>>),
     branch_code |-> Str(<<49>>), branch_name |-> Str(<<12507, 12531, 12486, 12531>>),
     clearing_house |-> Str(<<48, 48, 48, 48>>), account_type |-> Str(<<26222, 36890>>),
     account_number |-> Str(<<52, 50>>),
     recipient_name |-> Str(<<12516, 12510, 12480, 12288, 12479, 12525, 12454>>),
     amount |-> Str(<<49, 44, 48, 48, 48>>), new_code |-> Str(<<49>>),
     customer_code1 |-> Str(<<65, 49>>), customer_code2 |-> Str(<<>>),
     transfer_type |-> Str(<<48>>)]

\* bank 1234, branch 567, account 1234567, current, "タナカ", amount 5000,
\* numeric cells as pandas reads them.
RowTanaka ==
    [RowYamada EXCEPT
       !.bank_code = Int64(<<1, 2, 3, 4>>), !.bank_name = Str(<<26481, 20140, 37504, 34892>>),
       !.branch_code = Int64(<<5, 6, 7>>), !.branch_name = Str(<<25903, 24215>>),
       !.account_type = Str(<<24403, 24231>>),
       !.account_number = Int64(<<1, 2, 3, 4, 5, 6, 7>>),
       !.recipient_name = Str(<<12479, 12490, 12459>>),
       !.amount = Int64(<<5, 0, 0, 0>>), !.new_code = Int64(<<2>>),
       !.clearing_house = NaN, !.customer_code1 = Int64(<<7>>)]

\* amount "-100": one reason.
RowNegative == [RowYamada EXCEPT !.amount = Str(<<45, 49, 48, 48>>)]

\* bank code "12A", branch code "1234", no account number, account type 3,
\* amount 0, a name of 31 half-width kana: several reasons at once.
RowManyDefects ==
    [RowYamada EXCEPT
       !.bank_code = Str(<<49, 50, 65>>), !.branch_code = Str(<<49, 50, 51, 52>>),
       !.account_number = NaN, !.account_type = Int64(<<3>>),
       !.amount = Int64(<<0>>),
       !.recipient_name = Str(<<65393, 65393, 65393, 65393, 65393, 65393, 65393, 65393, 65393, 65393, 65393, 65393, 65393, 65393, 65393, 65393, 65393, 65393, 65393, 65393, 65393, 65393, 65393, 65393, 65393, 65393, 65393, 65393, 65393, 65393, 65393>>)]

\* An amount of 11 digits: 12345678901; names in Latin capitals, so that the
\* record is 120 bytes in utf-8 too.
RowElevenDigits ==
    [RowTanaka EXCEPT !.amount = Int64(<<1, 2, 3, 4, 5, 6, 7, 8, 9, 0, 1>>),
                      !.bank_name = Str(<<77, 73, 90, 85, 72, 79>>),
                      !.branch_name = Str(<<72, 79, 78, 84, 69, 78>>),
                      !.recipient_name = Str(<<84, 65, 78, 65, 75, 65>>)]

\* Full-width digits as bank code ("１２３４"), a bank name of 8 kanji (16 bytes),
\* the largest amount of 10 digits.
RowZenkaku ==
    [RowYamada EXCEPT
       !.bank_code = Str(<<65297, 65298, 65299, 65300>>),
       !.bank_name = Str(<<26481, 20140, 26481, 20140, 26481, 20140, 26481, 20140>>),
       !.amount = Str(<<57, 57, 57, 57, 57, 57, 57, 57, 57, 57>>)]

\* An empty transfer-type cell (NaN) and a float amount.
RowNoTransferType ==
    [RowYamada EXCEPT !.transfer_type = NaN, !.amount = Float64(<<2, 5, 0, 0>>, <<0>>)]

\* Transfer type "±" (U+00B1, a byte value that is a half-width kana in
\* shift_jis) and a float amount 300.5.
RowOddTransferType ==
    [RowTanaka EXCEPT !.transfer_type = Str(<<177>>), !.amount = Float64(<<3, 0, 0>>, <<5>>)]

\* Transfer type "é" (U+00E9, a shift_jis lead byte).
RowLeadByteTransferType == [RowTanaka EXCEPT !.transfer_type = Str(<<233>>)]

RowPool ==
    {RowYamada, RowTanaka, RowNegative, RowManyDefects, RowElevenDigits, RowZenkaku,
     RowNoTransferType, RowOddTransferType, RowLeadByteTransferType}

\* The rows of a sheet with the columns cols.
Sheets(cols) ==
    UNION {[1..n -> {[c \in cols |-> r[c]] : r \in RowPool}] : n \in 0..MaxRows}

\* datetime.now().strftime("%m%d") at the time the header is built.
Dates == {<<49, 49, 48, 53>>, <<48, 49, 51, 49>>}

\* Encoding names and line terminators the convert form can post.
Encodings == {"shift_jis", "sjis", "utf-8"}
Newlines == {<<13, 10>>, <<10>>}

(***************************************************************************)
(* State.                                                                  *)
(***************************************************************************)
VARIABLES
    df,            \* the rows pd.read_excel returned
    pc,            \* where the convert handler is
    idx,           \* convert_excel_to_zengin: index of the next row
    records,       \* convert_excel_to_zengin: data records so far
    total_amount,  \* convert_excel_to_zengin: sum of the amounts, decimal digits
    error_rows,    \* convert_excel_to_zengin: failures so far
    result,        \* the list convert_excel_to_zengin returned (<<>> before)
    error,         \* the ZenginFormatError raised (NoError before)
    output,        \* the file save_zengin_file wrote (NoFile before)
    save_calls,    \* number of calls of save_zengin_file
    call,          \* a direct call of one function: its name and arguments
    ret,           \* what that call returned (NoReturn before)
    files,         \* the output directory: file name -> bytes of the file
    now,           \* the clock, in seconds
    savers,        \* the running calls of save_zengin_file, one per request
    pos_sales,     \* the committed rows of the table pos_sales, in id order
    session,       \* db.session: the pending deletes and adds
    pos_call       \* the running call of save_pdf_data_to_db

handler_vars == <<df, pc, idx, records, total_amount, error_rows, result, error, output,
                  save_calls, call, ret>>

store_vars == <<files, now, savers, pos_sales, session, pos_call>>

vars == <<df, pc, idx, records, total_amount, error_rows, result, error, output, save_calls,
          call, ret, files, now, savers, pos_sales, session, pos_call>>

NoError == [msg |-> "none", rows |-> <<>>]
NoFile == [written |-> FALSE, encoding |-> "", newline |-> <<>>, lines |-> <<>>,
           bytes |-> <<>>]
NoCall == [fn |-> "none"]
NoReturn == [fn |-> "none"]
NoSession == [deleted |-> {}, added |-> <<>>]
NoPosCall == [pc |-> "idle", calls |-> 0]

\* No file in the output directory, no request saving, an empty table.
IdleStores ==
    /\ files = [dir |-> "present", names |-> <<>>]
    /\ now = 0
    /\ savers = <<>>
    /\ pos_sales = <<>>
    /\ session = NoSession
    /\ pos_call = NoPosCall

Init ==
    /\ \E cols \in ColumnSets : df \in Sheets(cols)
    /\ pc = "convert"
    /\ idx = 0
    /\ records = <<>>
    /\ total_amount = <<0>>
    /\ error_rows = <<>>
    /\ result = <<>>
    /\ error = NoError
    /\ output = NoFile
    /\ save_calls = 0
    /\ call = NoCall
    /\ ret = NoReturn
    /\ IdleStores

(***************************************************************************)
(* Batch composer: convert_excel_to_zengin.                                *)
(***************************************************************************)
\* Fault: records.insert(0, record) instead of records.append(record).
append_record_in_front(recs, record) == <<record>> \o recs

\* records.append(record)
append_record(recs, record) == Append(recs, record)

\* total_amount += amount for the parsed amount a; a ValueError (a.ok FALSE)
\* is swallowed and leaves the total unchanged.
add_parsed(total, a) == IF a.ok THEN Add(total, a.d) ELSE total

\* The total after a converted row (lines 707-716): the amount cell is parsed
\* again, int(float(str(x).replace(",", ""))).  (The amount of a validated
\* row is positive.)
add_amount(total, row) ==
    IF isna(Get(row, "amount", Int64(<<0>>))) THEN total
    ELSE add_parsed(total, int_float(remove_commas(str(Get(row, "amount", Int64(<<0>>))))))

\* Fault: the row tagged with its 1-based position among the data rows, the
\* header row of the sheet not counted.
error_row_without_header(i, r) ==
    [row |-> i + 1, unexpected |-> r.status = "Exception", reasons |-> r.errors]

\* An entry of error_rows: "行 {idx + 2}: ..." with the reasons of a validation
\* failure, or "予期しないエラー" for another exception.
error_row(i, r) ==
    [row |-> i + 2, unexpected |-> r.status = "Exception", reasons |-> r.errors]

\* Fault: nothing is raised after the loop (lines 726-732 missing).
conversion_error_never_raised(recs, errs) == NoError

\* Fault: the loop's error_rows are not looked at after the loop (lines 729-732 missing).
conversion_error_ignoring_rows(recs, errs) ==
    IF recs = <<>> THEN [msg |-> "no_convertible_data", rows |-> <<>>]
    ELSE NoError

\* What convert_excel_to_zengin raises after the loop (lines 726-732), NoError
\* when it goes on to build the batch.
conversion_error(recs, errs) ==
    IF recs = <<>> THEN [msg |-> "no_convertible_data", rows |-> <<>>]
    ELSE IF errs # <<>>
    THEN [msg |-> "conversion_errors", rows |-> Take(errs, MaxShownErrors)]
    ELSE NoError

\* result_records.append(end) with end = create_end_record(len(result_records)).
append_end(result_records) ==
    Append(result_records, create_end_record(Len(result_records)))

\* Fault: the end record appended before the trailer.
assemble_batch_end_before_trailer(recs, total, mmdd) ==
    Append(append_end(<<create_header_record(Len(recs), mmdd)>> \o recs),
           create_trailer_record(Len(recs), total))

\* The batch (lines 740-757).
assemble_batch(recs, total, mmdd) ==
    append_end(<<create_header_record(Len(recs), mmdd)>> \o recs
               \o <<create_trailer_record(Len(recs), total)>>)

\* pd.read_excel and the df.empty check (lines 664-694).
ReadExcel ==
    /\ pc = "convert"
    /\ IF df = <<>>
       THEN /\ pc' = "raised"
            /\ error' = [msg |-> "empty_file", rows |-> <<>>]
       ELSE /\ pc' = "loop"
            /\ error' = error
    /\ UNCHANGED <<df, idx, records, total_amount, error_rows, result, output, save_calls,
                   call, ret>>
    /\ UNCHANGED store_vars

\* The effect of one iteration on records, total_amount and error_rows, r
\* being what convert_row_to_record(row_dict) returned or raised.
RowOutcome(row_dict, r) ==
    IF r.status = "ok"
    THEN /\ records' = append_record(records, r.record)
         /\ total_amount' = add_amount(total_amount, row_dict)
         /\ error_rows' = error_rows
    ELSE /\ error_rows' = Append(error_rows, error_row(idx, r))
         /\ UNCHANGED <<records, total_amount>>

\* One iteration of "for idx, row in df.iterrows()" (lines 697-724).
ProcessRow ==
    /\ pc = "loop"
    /\ idx < Len(df)
    /\ RowOutcome(df[idx + 1], convert_row_to_record(df[idx + 1]))
    /\ idx' = idx + 1
    /\ UNCHANGED <<df, pc, result, error, output, save_calls, call, ret>>
    /\ UNCHANGED store_vars

\* After the loop: raise, or build and return the batch (lines 726-757).
Compose ==
    /\ pc = "loop"
    /\ idx = Len(df)
    /\ LET e == conversion_error(records, error_rows) IN
       IF e # NoError
       THEN /\ pc' = "raised"
            /\ error' = e
            /\ result' = result
       ELSE /\ pc' = "returned"
            /\ \E mmdd \in Dates : result' = assemble_batch(records, total_amount, mmdd)
            /\ error' = error
    /\ UNCHANGED <<df, idx, records, total_amount, error_rows, output, save_calls,
                   call, ret>>
    /\ UNCHANGED store_vars

(***************************************************************************)
(* The convert handler of the upload route around it.                      *)
(***************************************************************************)
\* except ZenginFormatError: flash the message and redirect (lines 259-270).
HandleError ==
    /\ pc = "raised"
    /\ pc' = "redirected"
    /\ UNCHANGED <<df, idx, records, total_amount, error_rows, result, error, output,
                   save_calls, call, ret>>
    /\ UNCHANGED store_vars

\* What save_zengin_file(recs, output_dir, encoding, newline) does
\* (zengin.py lines 798-842): every record is checked under encoding; then
\* the file is opened and the records are written one by one; a record the
\* file's codec cannot encode ends the writing with an error, the file
\* holding the records before it.
save_zengin_file(recs, encoding, newline) ==
    IF bad_records(recs, encoding) # {}
    THEN /\ pc' = "save_failed"
         /\ \E i \in {first_bad_record(recs, encoding)} :
               error' = length_error(recs, encoding, i)
         /\ output' = output
    ELSE \E n \in {writable_prefix(recs, open_codec(encoding), 0)} :
            /\ pc' = IF n = Len(recs) THEN "saved" ELSE "save_failed"
            /\ error' = IF n = Len(recs) THEN error
                        ELSE [msg |-> "encoding_error", rows |-> <<>>]
            /\ output' = [written |-> TRUE, encoding |-> encoding, newline |-> newline,
                          lines |-> Take(recs, n),
                          bytes |-> written_bytes(recs, n, open_codec(encoding), newline)]

\* The convert handler saves the batch (upload.py lines 286-301).
SaveFile ==
    /\ pc = "returned"
    /\ save_calls' = save_calls + 1
    /\ \E encoding \in Encodings, newline \in Newlines :
         save_zengin_file(result, encoding, newline)
    /\ UNCHANGED <<df, idx, records, total_amount, error_rows, result, call, ret>>
    /\ UNCHANGED store_vars

Next == ReadExcel \/ ProcessRow \/ Compose \/ HandleError \/ SaveFile

Spec == Init /\ [][Next]_vars

(***************************************************************************)
(* create_trailer_record on its own: the arguments a caller can pass are   *)
(* drawn from small counts and from counts around the end of the six-digit *)
(* field (a sheet has at most 1048575 data rows).  idx holds record_count. *)
(***************************************************************************)
TrailerCounts == (0..MaxCount) \cup {999998, 999999, 1000000, 1048575}

TrailerTotals == {<<0>>, <<1, 0, 0, 0>>, <<1, 2, 3, 4, 5, 6, 7, 8, 9, 0>>}

TrailerInit ==
    /\ df = <<>>
    /\ pc = "trailer_call"
    /\ idx \in TrailerCounts
    /\ records = <<>>
    /\ total_amount \in TrailerTotals
    /\ error_rows = <<>>
    /\ result = <<>>
    /\ error = NoError
    /\ output = NoFile
    /\ save_calls = 0
    /\ call = NoCall
    /\ ret = NoReturn
    /\ IdleStores

\* trailer = cls.create_trailer_record(record_count, total_amount)
CreateTrailer ==
    /\ pc = "trailer_call"
    /\ result' = <<create_trailer_record(idx, total_amount)>>
    /\ pc' = "trailer_built"
    /\ UNCHANGED <<df, idx, records, total_amount, error_rows, error, output, save_calls,
                   call, ret>>
    /\ UNCHANGED store_vars

TrailerNext == CreateTrailer

TrailerSpec == TrailerInit /\ [][TrailerNext]_vars

(***************************************************************************)
(* Direct calls of the pure functions of ZenginConverter: call holds the   *)
(* function and its arguments, ret what it returned.                       *)
(***************************************************************************)
\* Values: "", "A", "AB", "東", "A東", "東京", "東A東", "é", "ｱ東", "éA東"
\* (東 and 京 take two bytes, ｱ one, é is not in shift_jis).
PadValues ==
    {<<>>, <<65>>, <<65, 66>>, <<26481>>, <<65, 26481>>, <<26481, 20140>>,
     <<26481, 65, 26481>>, <<233>>, <<65393, 26481>>, <<233, 65, 26481>>}

\* Fill characters: " ", "0" (the two the converter uses) and the full-width space.
PadFills == {<<32>>, <<48>>, <<12288>>}

PadCalls ==
    {[fn |-> "_pad_string", value |-> v, length |-> n, fill_char |-> f, align |-> a] :
        v \in PadValues, n \in 0..MaxPadLength, f \in PadFills, a \in {"left", "right"}}

\* Characters without an entry in ZENKAKU_TO_HANKAKU: "A", "1", " ", "ｱ", "ﾞ"
\* (already half-width), "あ" (hiragana), "ヴ", "東", "１" (full-width digit).
UnmappedChars == {65, 49, 32, 65393, 65438, 12354, 12532, 26481, 65297}

\* Every key of the table alone, every unmapped character alone, and the
\* texts of two characters over "ガ", "ア", "パ", "　", "ー" and the unmapped ones.
KanaTexts ==
    {<<c>> : c \in DOMAIN ZENKAKU_TO_HANKAKU \cup UnmappedChars}
    \cup {<<c, d>> : c \in {12460, 12450, 12497, 12288, 12540} \cup UnmappedChars,
                     d \in {12460, 12450, 12497, 12288, 12540} \cup UnmappedChars}
    \cup {<<>>}

KanaCalls == {[fn |-> "_to_hankaku_kana", text |-> t] : t \in KanaTexts}

\* Cells of a numeric code: "0123", "1234", "12345", "12A", "１２", "１２３４"
\* (full-width), "²", "", " 12 ", 12 (int64), 12.0 (float64), an empty cell.
CodeCells ==
    {Str(<<48, 49, 50, 51>>), Str(<<49, 50, 51, 52>>), Str(<<49, 50, 51, 52, 53>>),
     Str(<<49, 50, 65>>), Str(<<65297, 65298>>), Str(<<65297, 65298, 65299, 65300>>),
     Str(<<178>>), Str(<<>>), Str(<<32, 49, 50, 32>>), Int64(<<1, 2>>),
     Float64(<<1, 2>>, <<0>>), NaN}

\* Account categories: "1", "2", "4", "9", "3", "普通", "当座", "貯蓄", "futsu",
\* "その他", " 2 ", "", 1 and 4 (int64), 2.0 (float64), an empty cell.
AccountTypeCells ==
    {Str(<<49>>), Str(<<50>>), Str(<<52>>), Str(<<57>>), Str(<<51>>),
     Str(<<26222, 36890>>), Str(<<24403, 24231>>), Str(<<36015, 33988>>),
     Str(<<102, 117, 116, 115, 117>>), Str(<<12381, 12398, 20182>>),
     Str(<<32, 50, 32>>), Str(<<>>), Int64(<<1>>), Int64(<<4>>), Float64(<<2>>, <<0>>), NaN}

\* Amounts: "1,000", "12", " 7 ", "+5", "１２", "100.5", "0.5", "0", "-5", "abc",
\* "", 5000 and 0 (int64), 2500.0 and 300.5 (float64), an empty cell.
AmountCells ==
    {Str(<<49, 44, 48, 48, 48>>), Str(<<49, 50>>), Str(<<32, 55, 32>>), Str(<<43, 53>>),
     Str(<<65297, 65298>>), Str(<<49, 48, 48, 46, 53>>), Str(<<48, 46, 53>>), Str(<<48>>),
     Str(<<45, 53>>), Str(<<97, 98, 99>>), Str(<<>>), Int64(<<5, 0, 0, 0>>), Int64(<<0>>),
     Float64(<<2, 5, 0, 0>>, <<0>>), Float64(<<3, 0, 0>>, <<5>>), NaN}

\* Recipient names: 30 and 31 half-width kana, 15 and 16 kanji, 15 and 16 "ガ"
\* (two bytes each once normalized), "é", "   ", "ヤマダ　タロウ", an empty cell.
NameCells ==
    {Str(Repeat(<<65393>>, 30)), Str(Repeat(<<65393>>, 31)),
     Str(Repeat(<<26481>>, 15)), Str(Repeat(<<26481>>, 16)),
     Str(Repeat(<<12460>>, 15)), Str(Repeat(<<12460>>, 16)),
     Str(<<233>>), Str(<<32, 32, 32>>), RowYamada["recipient_name"], NaN}

\* The valid row with one cell replaced.
OneCellRows ==
    {[RowYamada EXCEPT ![f] = v] :
        f \in {"bank_code", "branch_code", "account_number"}, v \in CodeCells}
    \cup {[RowYamada EXCEPT !["account_type"] = v] : v \in AccountTypeCells}
    \cup {[RowYamada EXCEPT !["amount"] = v] : v \in AmountCells}
    \cup {[RowYamada EXCEPT !["recipient_name"] = v] : v \in NameCells}

\* The valid row without one of its columns.
MissingColumnRows ==
    {[c \in AllColumns \ {f} |-> RowYamada[c]] :
        f \in {"bank_code", "branch_code", "account_number", "recipient_name", "amount",
               "account_type"}}

\* Rows with several defects at once.
DefectRows ==
    {[RowYamada EXCEPT !["bank_code"] = b, !["branch_code"] = r, !["account_number"] = a,
                       !["account_type"] = t, !["amount"] = m, !["recipient_name"] = n] :
        b \in {RowYamada["bank_code"], Str(<<49, 50, 65>>), NaN},
        r \in {RowYamada["branch_code"], Str(<<49, 50, 51, 52>>)},
        a \in {RowYamada["account_number"], NaN},
        t \in {RowYamada["account_type"], Str(<<51>>)},
        m \in {RowYamada["amount"], Str(<<48>>), Str(<<97, 98, 99>>)},
        n \in {RowYamada["recipient_name"], Str(Repeat(<<65393>>, 31)), Str(<<32, 32, 32>>)}}

\* The valid row with one optional cell changed: an empty cell (NaN), an
\* empty string, "7", "é", "±", "あ", "12345", or the column missing.
OptionalCells ==
    {NaN, Str(<<>>), Str(<<55>>), Str(<<233>>), Str(<<177>>), Str(<<12354>>),
     Str(<<49, 50, 51, 52, 53>>)}

OptionalFields ==
    {"bank_name", "branch_name", "clearing_house", "new_code", "customer_code1",
     "customer_code2", "transfer_type"}

OptionalCellRows ==
    {[RowYamada EXCEPT ![f] = v] : f \in OptionalFields, v \in OptionalCells}
    \cup {[c \in AllColumns \ {f} |-> RowYamada[c]] : f \in OptionalFields}

CallRows == OneCellRows \cup MissingColumnRows \cup DefectRows \cup OptionalCellRows

RowCalls ==
    {[fn |-> f, row |-> r] :
        f \in {"validate_customer_data", "convert_row_to_record"}, r \in CallRows}

Calls == PadCalls \cup KanaCalls \cup RowCalls

CallInit ==
    /\ df = <<>>
    /\ pc = "call"
    /\ idx = 0
    /\ records = <<>>
    /\ total_amount = <<0>>
    /\ error_rows = <<>>
    /\ result = <<>>
    /\ error = NoError
    /\ output = NoFile
    /\ save_calls = 0
    /\ call \in Calls
    /\ ret = NoReturn
    /\ IdleStores

\* ZenginConverter._pad_string(value, length, fill_char, align)
PadString ==
    /\ pc = "call"
    /\ call.fn = "_pad_string"
    /\ ret' = pad_string(call.value, call.length, call.fill_char, call.align)
    /\ pc' = "done"
    /\ UNCHANGED <<df, idx, records, total_amount, error_rows, result, error, output,
                   save_calls, call>>
    /\ UNCHANGED store_vars

\* ZenginConverter._to_hankaku_kana(text)
ToHankakuKana ==
    /\ pc = "call"
    /\ call.fn = "_to_hankaku_kana"
    /\ ret' = [ok |-> TRUE, s |-> to_hankaku_kana(call.text)]
    /\ pc' = "done"
    /\ UNCHANGED <<df, idx, records, total_amount, error_rows, result, error, output,
                   save_calls, call>>
    /\ UNCHANGED store_vars

\* ZenginConverter.validate_customer_data(row): (is_valid, errors)
ValidateRow ==
    /\ pc = "call"
    /\ call.fn = "validate_customer_data"
    /\ ret' = [valid |-> Len(validate_customer_data(call.row)) = 0,
               errors |-> validate_customer_data(call.row)]
    /\ pc' = "done"
    /\ UNCHANGED <<df, idx, records, total_amount, error_rows, result, error, output,
                   save_calls, call>>
    /\ UNCHANGED store_vars

\* ZenginConverter.convert_row_to_record(row): the record, or the exception raised
ConvertRow ==
    /\ pc = "call"
    /\ call.fn = "convert_row_to_record"
    /\ ret' = convert_row_to_record(call.row)
    /\ pc' = "done"
    /\ UNCHANGED <<df, idx, records, total_amount, error_rows, result, error, output,
                   save_calls, call>>
    /\ UNCHANGED store_vars

CallNext == PadString \/ ToHankakuKana \/ ValidateRow \/ ConvertRow

CallSpec == CallInit /\ [][CallNext]_vars

(***************************************************************************)
(* The convert handler called with a requester: the form fields            *)
(* requester_code and requester_name are passed to convert_excel_to_zengin *)
(* (upload.py lines 243-257), which passes them on to                      *)
(* convert_row_to_record (line 704); call holds them.                      *)
(***************************************************************************)
\* No requester; "1234567890" and "ヤマダ　ショウジ"; "42" and "ABC".
Requesters ==
    {[requester_code |-> <<>>, requester_name |-> <<>>],
     [requester_code |-> <<49, 50, 51, 52, 53, 54, 55, 56, 57, 48>>, requester_name |-> <<12516, 12510, 12480, 12288, 12471, 12519, 12454, 12472>>],
     [requester_code |-> <<52, 50>>, requester_name |-> <<65, 66, 67>>]}

RequesterCalls ==
    {[fn |-> "convert_excel_to_zengin", requester_code |-> r.requester_code,
      requester_name |-> r.requester_name] : r \in Requesters}

\* Sheets of valid rows, rows with one reason and rows with several.
RequestSheets ==
    UNION {[1..n -> {RowYamada, RowNegative, RowManyDefects}] : n \in 0..MaxRequestRows}

RequestInit ==
    /\ df \in RequestSheets
    /\ pc = "convert"
    /\ idx = 0
    /\ records = <<>>
    /\ total_amount = <<0>>
    /\ error_rows = <<>>
    /\ result = <<>>
    /\ error = NoError
    /\ output = NoFile
    /\ save_calls = 0
    /\ call \in RequesterCalls
    /\ ret = NoReturn
    /\ IdleStores

RequestSpec == RequestInit /\ [][Next]_vars

(***************************************************************************)
(* save_zengin_file called by two requests on the same output directory.   *)
(* files is the directory: whether it exists ("present"), can be created   *)
(* ("absent") or cannot ("blocked": a parent is missing or a file is in    *)
(* the way), and the bytes of each file in it, by name.  The name of a     *)
(* file is "zengin_<timestamp>.txt", the timestamp being the clock read to *)
(* the second, so the second stands for the name.  The lists of records    *)
(* are short: what f.write collects stays in the buffer of the file object *)
(* and reaches the file when it is closed.                                 *)
(***************************************************************************)
SaveRequests == {1, 2}

\* No convert handler is running.
IdleHandler ==
    /\ df = <<>>
    /\ pc = "idle"
    /\ idx = 0
    /\ records = <<>>
    /\ total_amount = <<0>>
    /\ error_rows = <<>>
    /\ result = <<>>
    /\ error = NoError
    /\ output = NoFile
    /\ save_calls = 0
    /\ call = NoCall
    /\ ret = NoReturn

\* Records of 120 characters: "1" or "9" and 119 spaces, "2" and 119 "A".
SaveHeader == <<49>> \o Repeat(<<32>>, RECORD_LENGTH - 1)
SaveData == <<50>> \o Repeat(<<65>>, RECORD_LENGTH - 1)
SaveEnd == <<57>> \o Repeat(<<32>>, RECORD_LENGTH - 1)

\* The lists of records save_zengin_file is called with: three records; two
\* records; a list whose second record is one character short; a list whose
\* second record holds "é", which shift_jis cannot encode (one byte, "?",
\* under errors="replace").
SaveBatches ==
    {<<SaveHeader, SaveData, SaveEnd>>,
     <<SaveHeader, SaveEnd>>,
     <<SaveHeader, Take(SaveData, RECORD_LENGTH - 1), SaveEnd>>,
     <<SaveHeader, <<50, 233>> \o Repeat(<<32>>, RECORD_LENGTH - 2), SaveEnd>>}

NoPath == -1

\* A call of save_zengin_file(recs, output_dir) about to start, with the
\* default encoding and newline.
StartSave(recs) ==
    [pc |-> "start", records |-> recs, encoding |-> "shift_jis", newline |-> <<13, 10>>,
     path |-> NoPath, open |-> FALSE, error |-> NoError, ret |-> NoPath]

Directories == {"present", "absent", "blocked"}

SaveInit ==
    /\ IdleHandler
    /\ files \in {[dir |-> d, names |-> <<>>] : d \in Directories}
    /\ now = 0
    /\ savers \in [SaveRequests -> {StartSave(b) : b \in SaveBatches}]
    /\ pos_sales = <<>>
    /\ session = NoSession
    /\ pos_call = NoPosCall

\* Fault: the result of os.makedirs is not looked at.
makedirs_unchecked(dir) == [ok |-> TRUE, dir |-> dir]

\* os.makedirs(output_dir, exist_ok=True): an OSError when the directory
\* cannot be created.
makedirs(dir) ==
    IF dir = "blocked" THEN [ok |-> FALSE, dir |-> dir]
    ELSE [ok |-> TRUE, dir |-> "present"]

\* Lines 786-791: the directory is created; an OSError is raised as
\* ZenginFormatError("出力ディレクトリの作成に失敗しました: ...").
Makedirs(p) ==
    /\ savers[p].pc = "start"
    /\ files' = [files EXCEPT !.dir = makedirs(files.dir).dir]
    /\ savers' = [savers EXCEPT ![p] =
                    IF makedirs(files.dir).ok
                    THEN [@ EXCEPT !.pc = "name"]
                    ELSE [@ EXCEPT !.pc = "raised",
                                   !.error = [msg |-> "makedirs_failed", rows |-> <<>>]]]
    /\ UNCHANGED <<now, pos_sales, session, pos_call>>
    /\ UNCHANGED handler_vars

\* Lines 793-807: the file is named after the clock, then every record is
\* checked.
NameAndCheck(p) ==
    /\ savers[p].pc = "name"
    /\ savers' = [savers EXCEPT ![p] =
                    IF bad_records(savers[p].records, savers[p].encoding) # {}
                    THEN [@ EXCEPT !.pc = "raised", !.path = now,
                                   !.error = length_error(savers[p].records,
                                                 savers[p].encoding,
                                                 first_bad_record(savers[p].records,
                                                                  savers[p].encoding))]
                    ELSE [@ EXCEPT !.pc = "open", !.path = now]]
    /\ UNCHANGED <<files, now, pos_sales, session, pos_call>>
    /\ UNCHANGED handler_vars

\* open(filepath, "w", ...) (lines 814, 826): the file is created, or
\* emptied when it exists.
OpenFile(p) ==
    /\ savers[p].pc = "open"
    /\ files' = [files EXCEPT !.names = (savers[p].path :> <<>>) @@ @]
    /\ savers' = [savers EXCEPT ![p] = [@ EXCEPT !.pc = "write", !.open = TRUE]]
    /\ UNCHANGED <<now, pos_sales, session, pos_call>>
    /\ UNCHANGED handler_vars

\* Closing the file writes the bytes collected at the start of the file.
flush(old, buffer) == buffer \o SubSeq(old, Len(buffer) + 1, Len(old))

\* Lines 815-842: the records are written one by one; the with statement
\* closes the file when the loop ends and when f.write raises; a
\* UnicodeEncodeError is raised as ZenginFormatError("文字エンコーディングエラー: ...").
WriteAndClose(p) ==
    /\ savers[p].pc = "write"
    /\ \E n \in {writable_prefix(savers[p].records, open_codec(savers[p].encoding), 0)} :
          /\ files' = [files EXCEPT !.names[savers[p].path] =
                          flush(@, written_bytes(savers[p].records, n,
                                                 open_codec(savers[p].encoding),
                                                 savers[p].newline))]
          /\ savers' = [savers EXCEPT ![p] =
                          IF n = Len(savers[p].records)
                          THEN [@ EXCEPT !.pc = "returned", !.open = FALSE,
                                         !.ret = savers[p].path]
                          ELSE [@ EXCEPT !.pc = "raised", !.open = FALSE,
                                         !.error = [msg |-> "encoding_error",
                                                    rows |-> <<>>]]]
    /\ UNCHANGED <<now, pos_sales, session, pos_call>>
    /\ UNCHANGED handler_vars

\* A second passes.
Tick ==
    /\ now < MaxSeconds
    /\ now' = now + 1
    /\ UNCHANGED <<files, savers, pos_sales, session, pos_call>>
    /\ UNCHANGED handler_vars

SaveNext ==
    \/ \E p \in SaveRequests : Makedirs(p)
    \/ \E p \in SaveRequests : NameAndCheck(p)
    \/ \E p \in SaveRequests : OpenFile(p)
    \/ \E p \in SaveRequests : WriteAndClose(p)
    \/ Tick

SaveSpec == SaveInit /\ [][SaveNext]_vars

(***************************************************************************)
(* save_pdf_data_to_db (features/pos.py): the records read from one PDF    *)
(* are saved to the table pos_sales.  pos_sales holds the committed rows   *)
(* in the order of their ids, session what db.session has pending.  A      *)
(* record is a dict: a function from its keys to values; a value is a text *)
(* (Str of code points) or None.  Of the columns product_name, unit_price, *)
(* subtotal and total_amount, which are used like quantity, quantity alone *)
(* is kept.                                                                *)
(***************************************************************************)
None == [t |-> "none"]

\* bool(v) of a text or None.
Truthy(v) == v.t = "str" /\ v.s # <<>>

\* a > b of two str values: by code points, a proper prefix being smaller.
RECURSIVE TextGreater(_, _)
TextGreater(a, b) ==
    IF a = <<>> THEN FALSE
    ELSE IF b = <<>> THEN TRUE
    ELSE IF a[1] # b[1] THEN a[1] > b[1]
    ELSE TextGreater(Tail(a), Tail(b))

\* "2025-11-06", "2025-11-06 10:00:00" and "2025-11-06 17:30:00": the texts
\* convert_wareki_to_seireki and convert_wareki_datetime_to_seireki build
\* (zero padded).
SaleDay == Str(<<50, 48, 50, 53, 45, 49, 49, 45, 48, 54>>)
ReportedMorning == Str(<<50, 48, 50, 53, 45, 49, 49, 45, 48, 54, 32, 49, 48, 58, 48, 48, 58, 48, 48>>)
ReportedEvening == Str(<<50, 48, 50, 53, 45, 49, 49, 45, 48, 54, 32, 49, 55, 58, 51, 48, 58, 48, 48>>)

\* The keys PosSales(...) reads from a record with record_data[key].
RecordKeys == {"pos_number", "sale_date", "reported_at", "product_code", "quantity"}

SalesRecord(pos, reported, code) ==
    [pos_number |-> pos, sale_date |-> SaleDay, reported_at |-> reported,
     product_code |-> Str(code), quantity |-> Str(<<49>>)]

\* A record without the key "quantity".
WithoutQuantity(pos, reported, code) ==
    [pos_number |-> pos, sale_date |-> SaleDay, reported_at |-> reported,
     product_code |-> Str(code)]

\* The lists save_pdf_data_to_db is called with; the records of one PDF
\* share pos_number, sale_date and reported_at (parse_sales_data takes them
\* from the metadata of the file).  POS "1" in the morning with one product;
\* in the evening with two; in the evening, the second record without
\* quantity; without a report time; POS "2" in the morning; no record; no
\* POS number.
PosInputs ==
    {<<SalesRecord(Str(<<49>>), ReportedMorning, <<65>>)>>,
     <<SalesRecord(Str(<<49>>), ReportedEvening, <<65>>),
       SalesRecord(Str(<<49>>), ReportedEvening, <<66>>)>>,
     <<SalesRecord(Str(<<49>>), ReportedEvening, <<65>>),
       WithoutQuantity(Str(<<49>>), ReportedEvening, <<66>>)>>,
     <<SalesRecord(Str(<<49>>), None, <<65>>)>>,
     <<SalesRecord(Str(<<50>>), ReportedMorning, <<65>>)>>,
     <<>>,
     <<SalesRecord(Str(<<>>), ReportedMorning, <<65>>)>>}

PdfNames == {"a.pdf"}

\* first_record.get(key): None for a key the record does not have.
get(record, key) == IF key \in DOMAIN record THEN record[key] ELSE None

\* PosSales(pos_number=record_data["pos_number"], ...,
\* pdf_source_file=pdf_filename), for a record with every key.
PosSales(record_data, pdf_filename) ==
    [pos_number |-> record_data["pos_number"],
     sale_date |-> record_data["sale_date"],
     reported_at |-> record_data["reported_at"],
     product_code |-> record_data["product_code"],
     quantity |-> record_data["quantity"],
     pdf_source_file |-> pdf_filename]

\* A row the table accepts: the columns are NOT NULL (models/pos_sales.py).
Storable(row) ==
    \A k \in RecordKeys : row[k] # None

\* PosSales.query.filter_by(pos_number=..., sale_date=...).all(): the
\* indexes of the rows, then the rows.
matching(rows, pos_number, sale_date) ==
    {i \in 1..Len(rows) : rows[i].pos_number = pos_number /\ rows[i].sale_date = sale_date}

filter_by(rows, pos_number, sale_date) ==
    SelectSeq(rows, LAMBDA r : r.pos_number = pos_number /\ r.sale_date = sale_date)

\* The rows left when the rows at the indexes of gone are deleted.
RECURSIVE without(_, _, _)
without(rows, gone, i) ==
    IF i > Len(rows) THEN <<>>
    ELSE (IF i \in gone THEN <<>> ELSE <<rows[i]>>) \o without(rows, gone, i + 1)

\* The number of records at the start of the list that have every key.
RECURSIVE complete_prefix(_, _)
complete_prefix(sales_records, n) ==
    IF n = Len(sales_records) THEN n
    ELSE IF ~(RecordKeys \subseteq DOMAIN sales_records[n + 1]) THEN n
    ELSE complete_prefix(sales_records, n + 1)

\* The loop of lines 114-134 from record i on: pending is what the session
\* holds; a record without a key raises KeyError inside the inner try, which
\* rolls the session back and counts the record as skipped.
RECURSIVE insert_loop(_, _, _, _, _)
insert_loop(sales_records, pdf_filename, i, pending, stats) ==
    IF i > Len(sales_records) THEN [added |-> pending, stats |-> stats]
    ELSE IF RecordKeys \subseteq DOMAIN sales_records[i]
    THEN insert_loop(sales_records, pdf_filename, i + 1,
                     Append(pending, PosSales(sales_records[i], pdf_filename)),
                     [stats EXCEPT !.inserted = @ + 1])
    ELSE insert_loop(sales_records, pdf_filename, i + 1, <<>>,
                     [stats EXCEPT !.skipped = @ + 1])

\* Fault: the condition of line 82 without the comparison.
newer_whenever_reported(reported_at, existing_reported_at) == Truthy(reported_at)

\* reported_at and reported_at > existing_reported_at (line 82).
newer(reported_at, existing_reported_at) ==
    Truthy(reported_at) /\ TextGreater(reported_at.s, existing_reported_at.s)

PosInit ==
    /\ IdleHandler
    /\ files = [dir |-> "present", names |-> <<>>]
    /\ now = 0
    /\ savers = <<>>
    /\ pos_sales = <<>>
    /\ session = NoSession
    /\ pos_call = NoPosCall

\* Lines 41-69: the call starts; it returns at once for an empty list and
\* for a first record without pos_number or sale_date.
PosCall ==
    /\ pos_call.pc = "idle"
    /\ pos_call.calls < MaxCalls
    /\ \E sales_records \in PosInputs, pdf_filename \in PdfNames, overwrite \in BOOLEAN :
          pos_call' =
            [pc |-> IF sales_records = <<>> THEN "returned"
                    ELSE IF ~Truthy(get(sales_records[1], "pos_number"))
                            \/ ~Truthy(get(sales_records[1], "sale_date"))
                    THEN "returned"
                    ELSE "query",
             calls |-> pos_call.calls,
             sales_records |-> sales_records,
             pdf_filename |-> pdf_filename,
             overwrite |-> overwrite,
             stats |-> [inserted |-> 0, skipped |-> 0, overwritten |-> 0],
             existing_records |-> <<>>,
             db_error |-> FALSE]
    /\ UNCHANGED <<files, now, savers, pos_sales, session>>
    /\ UNCHANGED handler_vars

\* The except of lines 138-141: rollback, the error is printed, and
\* skipped = len(sales_records).
db_save_error(c) ==
    [c EXCEPT !.pc = "returned", !.db_error = TRUE,
              !.stats.skipped = Len(c.sales_records)]

\* Lines 73-82 and 106-111: the stored rows of the POS and day are read and
\* the branch is chosen.
Query ==
    /\ pos_call.pc = "query"
    /\ \E existing \in {filter_by(pos_sales, pos_call.sales_records[1].pos_number,
                                  pos_call.sales_records[1].sale_date)} :
          pos_call' =
            IF existing = <<>>
            THEN [pos_call EXCEPT !.pc = "insert"]
            ELSE IF pos_call.overwrite
                    /\ newer(pos_call.sales_records[1].reported_at, existing[1].reported_at)
            THEN [pos_call EXCEPT !.pc = "delete", !.existing_records = existing]
            ELSE [pos_call EXCEPT !.pc = "returned", !.existing_records = existing,
                                  !.stats.skipped = Len(pos_call.sales_records)]
    /\ UNCHANGED <<files, now, savers, pos_sales, session>>
    /\ UNCHANGED handler_vars

\* Lines 84-86: the stored rows are deleted and the deletion is committed;
\* a commit the database refuses is caught by the except of line 138.
DeleteExisting ==
    /\ pos_call.pc = "delete"
    /\ \E committed \in BOOLEAN :
          IF committed
          THEN /\ pos_sales' = without(pos_sales,
                                  matching(pos_sales, pos_call.sales_records[1].pos_number,
                                           pos_call.sales_records[1].sale_date), 1)
               /\ pos_call' = [pos_call EXCEPT !.pc = "add"]
          ELSE /\ pos_sales' = pos_sales
               /\ pos_call' = db_save_error(pos_call)
    /\ session' = NoSession
    /\ UNCHANGED <<files, now, savers>>
    /\ UNCHANGED handler_vars

\* Lines 89-103: the incoming records are added to the session, each counted
\* as overwritten; a record without a key raises KeyError, caught by the
\* except of line 138.
AddOverwriting ==
    /\ pos_call.pc = "add"
    /\ \E n \in {complete_prefix(pos_call.sales_records, 0)} :
          IF n = Len(pos_call.sales_records)
          THEN /\ session' = [session EXCEPT !.added =
                                [i \in 1..n |-> PosSales(pos_call.sales_records[i],
                                                         pos_call.pdf_filename)]]
               /\ pos_call' = [pos_call EXCEPT !.pc = "commit", !.stats.overwritten = n]
          ELSE /\ session' = NoSession
               /\ pos_call' = db_save_error([pos_call EXCEPT !.stats.overwritten = n])
    /\ UNCHANGED <<files, now, savers, pos_sales>>
    /\ UNCHANGED handler_vars

\* Lines 114-134: without stored rows the records are added to the session
\* one by one, each in its own try.
AddNew ==
    /\ pos_call.pc = "insert"
    /\ \E done \in {insert_loop(pos_call.sales_records, pos_call.pdf_filename, 1,
                                <<>>, pos_call.stats)} :
          /\ session' = [session EXCEPT !.added = done.added]
          /\ pos_call' = [pos_call EXCEPT !.pc = "commit", !.stats = done.stats]
    /\ UNCHANGED <<files, now, savers, pos_sales>>
    /\ UNCHANGED handler_vars

\* db.session.commit() of lines 105 and 136: the pending rows are stored;
\* the database may refuse the commit, and refuses a row with None in a
\* column; the except of line 138 rolls back.
Commit ==
    /\ pos_call.pc = "commit"
    /\ \E committed \in BOOLEAN :
          IF committed /\ \A i \in 1..Len(session.added) : Storable(session.added[i])
          THEN /\ pos_sales' = pos_sales \o session.added
               /\ pos_call' = [pos_call EXCEPT !.pc = "returned"]
          ELSE /\ pos_sales' = pos_sales
               /\ pos_call' = db_save_error(pos_call)
    /\ session' = NoSession
    /\ UNCHANGED <<files, now, savers>>
    /\ UNCHANGED handler_vars

\* Line 143: the statistics are returned; the next file can be saved.
PosReturn ==
    /\ pos_call.pc = "returned"
    /\ pos_call' = [pc |-> "idle", calls |-> pos_call.calls + 1]
    /\ UNCHANGED <<files, now, savers, pos_sales, session>>
    /\ UNCHANGED handler_vars

PosNext ==
    \/ PosCall
    \/ Query
    \/ DeleteExisting
    \/ AddOverwriting
    \/ AddNew
    \/ Commit
    \/ PosReturn

PosSpec == PosInit /\ [][PosNext]_vars

(***************************************************************************)
(* Reading a batch back: what a receiver of the file decodes.              *)
(***************************************************************************)
\* The batch has been returned to the convert handler.
Returned == pc \in {"returned", "saved", "save_failed"}

\* Bytes pos .. pos + length - 1 (0-based) of a record under shift_jis.
FieldBytes(rec, pos, length) == SubSeq(Encode(rec), pos + 1, pos + length)

\* The first byte of a record under shift_jis: that of its first character.
FirstByte(rec) == EncodeChar(rec[1])[1]

AllDigits(b) == \A i \in 1..Len(b) : b[i] >= 48 /\ b[i] <= 57

\* The number a zero-padded decimal field holds, as digits without leading zeros.
FieldNumber(b) == StripZeros([i \in 1..Len(b) |-> b[i] - 48])

\* The data records of a returned batch: all but the first and the last two.
DataRecords(batch) == SubSeq(batch, 2, Len(batch) - 2)

\* The sum of the amount fields (bytes 80..89) of the first k records of recs.
RECURSIVE SumOfAmounts(_, _)
SumOfAmounts(recs, k) ==
    IF k = 0 THEN <<0>>
    ELSE Add(SumOfAmounts(recs, k - 1), FieldNumber(FieldBytes(recs[k], 80, 10)))

\* Row i of the sheet (1-based) is not converted into a record.
RowFails(i) == convert_row_to_record(df[i]).status # "ok"

AnyRowFails == \E i \in 1..Len(df) : RowFails(i)

(***************************************************************************)
(* C1.  Every record the converter produced (the data records collected by *)
(* the loop and every record of a returned batch: header, data, trailer,   *)
(* end) is exactly 120 bytes long when encoded under shift_jis.            *)
(***************************************************************************)
C1_RecordLength ==
    /\ \A i \in 1..Len(records) : Len(Encode(records[i])) = RECORD_LENGTH
    /\ \A i \in 1..Len(result) : Len(Encode(result[i])) = RECORD_LENGTH

\* A batch was returned that holds a record with two-byte characters (fewer
\* than 120 characters, yet 120 bytes): a bank name cut inside a kanji.
C1_Witness ==
    /\ Returned
    /\ \E i \in 1..Len(result) : Len(result[i]) < RECORD_LENGTH

(***************************************************************************)
(* C2.  All-or-nothing: when at least one row of the sheet fails, no batch *)
(* is ever returned, the conversion ends by raising, save_zengin_file is   *)
(* never called and no file is written; a batch is returned only when      *)
(* every row was encoded.                                                  *)
(***************************************************************************)
\* Either nothing was returned, saved or written, or no row fails and the
\* batch returned holds a record for every row.
C2_AllOrNothing ==
    \/ /\ ~Returned
       /\ result = <<>>
       /\ save_calls = 0
       /\ output = NoFile
       /\ (pc \in {"raised", "redirected"} => error # NoError)
    \/ /\ ~AnyRowFails
       /\ Returned => Len(result) = Len(df) + 3

\* The handler finished a sheet of which one row was converted and another failed.
C2_Witness ==
    /\ pc = "redirected"
    /\ Len(records) >= 1
    /\ AnyRowFails

(***************************************************************************)
(* C3.  When the sheet holds an invalid row, the error raised names every  *)
(* failing row (by its ordinal, index + 2) together with each of its       *)
(* reasons, however many rows fail.                                        *)
(***************************************************************************)
C3_EveryFailureNamed ==
    (pc = "raised" /\ AnyRowFails) =>
        /\ error.rows # <<>>
        /\ \A i \in 1..Len(df) :
              RowFails(i) =>
                  \E k \in 1..Len(error.rows) :
                      /\ error.rows[k].row = i + 1
                      /\ error.rows[k].reasons = validate_customer_data(df[i])

(***************************************************************************)
(* C4.  In a returned batch the trailer's total (12 digits at bytes 7..18) *)
(* equals the sum of the amounts decoded from bytes 80..89 of the data     *)
(* records.                                                                *)
(***************************************************************************)
C4_TrailerTotal ==
    Returned =>
        FieldNumber(FieldBytes(result[Len(result) - 1], 7, 12))
            = SumOfAmounts(DataRecords(result), Len(result) - 3)

(***************************************************************************)
(* C5.  The trailer's count (6 digits at bytes 1..6) equals the number of  *)
(* data records of the batch: create_trailer_record(record_count, ...) is  *)
(* called with the number of data records, so its count field has to       *)
(* decode to record_count whatever that number is.                         *)
(***************************************************************************)
C5_TrailerCount ==
    pc = "trailer_built" =>
        /\ AllDigits(FieldBytes(result[1], 1, 6))
        /\ FieldNumber(FieldBytes(result[1], 1, 6)) = NatDigits(idx)

C7_BatchShape ==
    Returned =>
        /\ Len(result) >= 3
        /\ \A i \in 1..Len(result) :
              /\ FirstByte(result[i]) = 49 <=> i = 1
              /\ FirstByte(result[i]) = 56 <=> i = Len(result) - 1
              /\ FirstByte(result[i]) = 57 <=> i = Len(result)
              /\ (1 < i /\ i < Len(result) - 1) => FirstByte(result[i]) = 50

\* A batch of header, two data records, trailer and end was returned.
C7_Witness ==
    /\ pc = "returned"
    /\ Len(result) = 5

(***************************************************************************)
(* C8.  Input order is preserved: the i-th data record of a returned batch *)
(* is the encoding of the i-th row of the sheet.                           *)
(***************************************************************************)
C8_OrderPreserved ==
    Returned =>
        /\ Len(DataRecords(result)) = Len(df)
        /\ \A i \in 1..Len(df) :
              DataRecords(result)[i] = convert_row_to_record(df[i]).record

\* A batch was returned for two rows whose records differ.
C8_Witness ==
    /\ Returned
    /\ Len(df) = 2
    /\ result[2] # result[3]

(***************************************************************************)
(* C9.  Every row validate_customer_data accepts has numeric fields that   *)
(* fit their declared byte lengths: bank code 4, branch code 3, account    *)
(* number 7, amount 10 (stated of the rows the loop has processed).        *)
(***************************************************************************)
NumericFieldsFit(row) ==
    /\ Len(Encode(validate_numeric(row["bank_code"], "bank_code", 4).value)) <= 4
    /\ Len(Encode(validate_numeric(row["branch_code"], "branch_code", 3).value)) <= 3
    /\ Len(Encode(validate_numeric(row["account_number"], "account_number", 7).value)) <= 7
    /\ Len(Encode(amount_text(amount_value(row["amount"])))) <= 10

C9_ValidatedFieldsFit ==
    \A i \in 1..idx : is_valid(df[i]) => NumericFieldsFit(df[i])

(***************************************************************************)
(* C10.  The data record layout: FIELD_DEFINITIONS gives the offsets and   *)
(* lengths of the format, the fields are contiguous, do not overlap and    *)
(* cover bytes 0..119, and each assignment convert_row_to_record makes for *)
(* a validated row replaces bytes of its own field only, by as many bytes. *)
(***************************************************************************)
DataLayout ==
    << <<"data_type", 0, 1>>, <<"bank_code", 1, 4>>, <<"bank_name", 5, 15>>,
       <<"branch_code", 20, 3>>, <<"branch_name", 23, 15>>, <<"clearing_house", 38, 4>>,
       <<"account_type", 42, 1>>, <<"account_number", 43, 7>>,
       <<"recipient_name", 50, 30>>, <<"amount", 80, 10>>, <<"new_code", 90, 1>>,
       <<"customer_code1", 91, 10>>, <<"customer_code2", 101, 10>>,
       <<"transfer_type", 111, 1>>, <<"identification", 112, 1>>, <<"dummy", 113, 7>> >>

WriteInsideField(w) ==
    /\ w.pos >= FIELD_DEFINITIONS[w.field].pos
    /\ w.pos + w.n <= FIELD_DEFINITIONS[w.field].pos + FIELD_DEFINITIONS[w.field].length
    /\ Len(w.data) = w.n

WritesInsideFields(ws) ==
    \A k \in 1..Len(ws) : ws[k].ok => WriteInsideField(ws[k])

\* The fields cut a record of 120 bytes into pieces of their declared lengths.
FieldsCut(b) ==
    /\ Len(b) = RECORD_LENGTH
    /\ \A k \in 1..Len(DataLayout) :
          Len(SubSeq(b, DataLayout[k][2] + 1, DataLayout[k][2] + DataLayout[k][3]))
              = DataLayout[k][3]

C10_DataLayout ==
    /\ DOMAIN FIELD_DEFINITIONS = {DataLayout[k][1] : k \in 1..Len(DataLayout)}
    /\ \A k \in 1..Len(DataLayout) :
          /\ FIELD_DEFINITIONS[DataLayout[k][1]].pos = DataLayout[k][2]
          /\ FIELD_DEFINITIONS[DataLayout[k][1]].length = DataLayout[k][3]
    /\ \A p \in 0..(RECORD_LENGTH - 1) :
          Cardinality({f \in DOMAIN FIELD_DEFINITIONS :
                          /\ FIELD_DEFINITIONS[f].pos <= p
                          /\ p < FIELD_DEFINITIONS[f].pos + FIELD_DEFINITIONS[f].length}) = 1
    /\ \A i \in 1..idx : is_valid(df[i]) => WritesInsideFields(field_writes(df[i]))
    /\ \A i \in 1..Len(records) : FieldsCut(Encode(records[i]))

\* The loop encoded a row whose bank name had to be cut to its 15 bytes.
C10_Witness ==
    /\ pc = "loop"
    /\ idx >= 1
    /\ is_valid(df[idx])
    /\ Len(records) >= 1
    /\ Len(Encode(to_hankaku_kana(cell_text(df[idx], "bank_name", <<>>)))) > 15

(***************************************************************************)
(* C11.  For every value, target length, fill character and alignment,     *)
(* _pad_string returns (it does not raise) a string whose encoded length   *)
(* under shift_jis is exactly the target length.                           *)
(***************************************************************************)
C11_PadLength ==
    (pc = "done" /\ call.fn = "_pad_string") =>
        /\ ret.ok
        /\ Len(Encode(ret.s)) = call.length

(***************************************************************************)
(* C12.  When _pad_string truncates (the value's encoding is longer than   *)
(* the target) it does not raise, the result encodes and decodes cleanly,  *)
(* and it is the longest whole-character prefix of the value that fits     *)
(* (a character shift_jis cannot encode being kept as "?"), followed by    *)
(* spaces only; a shorter value packed to the left with the space keeps    *)
(* its bytes and is followed by spaces only.                               *)
(***************************************************************************)
\* s is the first k characters of value, followed by spaces.
KeepsPrefix(s, value, k) ==
    /\ k <= Len(s)
    /\ \A i \in 1..k : s[i] = IF Encodable(value[i]) THEN value[i] ELSE 63
    /\ \A i \in (k + 1)..Len(s) : s[i] = 32

\* The first k characters of value fit length bytes, one more does not.
LongestFit(value, k, length) ==
    /\ Len(Encode(Take(value, k))) <= length
    /\ k < Len(value) => Len(Encode(Take(value, k + 1))) > length

C12_TruncationSafe ==
    (pc = "done" /\ call.fn = "_pad_string") =>
        /\ Len(Encode(call.value)) > call.length =>
              /\ ret.ok
              /\ EncodeStrict(ret.s).ok
              /\ Decode(Encode(ret.s)) = [ok |-> TRUE, s |-> ret.s]
              /\ \E k \in 0..Len(call.value) :
                    /\ KeepsPrefix(ret.s, call.value, k)
                    /\ LongestFit(call.value, k, call.length)
        /\ (Len(Encode(call.value)) <= call.length /\ call.fill_char = <<32>>
                /\ call.align = "left") =>
              /\ ret.ok
              /\ Encode(ret.s) = Encode(call.value)
                                    \o Repeat(<<32>>, call.length - Len(Encode(call.value)))

\* A value was cut inside a two-byte character: the cut bytes do not decode.
C12_Witness ==
    /\ pc = "done"
    /\ call.fn = "_pad_string"
    /\ Len(Encode(call.value)) > call.length
    /\ ~Decode(Take(Encode(call.value), call.length)).ok
    /\ ret.ok

(***************************************************************************)
(* C13.  Kana normalization is idempotent: normalizing the result of       *)
(* _to_hankaku_kana again gives the same text; a character without a table *)
(* entry passes through unchanged, at its place, and a character with one  *)
(* is replaced by its entry; the function returns for every text.          *)
(***************************************************************************)
\* What one character becomes.
NormalizedChar(c) ==
    IF c \in DOMAIN ZENKAKU_TO_HANKAKU THEN ZENKAKU_TO_HANKAKU[c] ELSE <<c>>

C13_KanaIdempotent ==
    (pc = "done" /\ call.fn = "_to_hankaku_kana") =>
        /\ ret.ok
        /\ to_hankaku_kana(ret.s) = ret.s
        /\ (\A i \in 1..Len(call.text) : call.text[i] \notin DOMAIN ZENKAKU_TO_HANKAKU)
              => ret.s = call.text
        /\ Len(call.text) = 1 => ret.s = NormalizedChar(call.text[1])
        /\ Len(call.text) = 2 =>
              ret.s = NormalizedChar(call.text[1]) \o NormalizedChar(call.text[2])

\* A voiced kana followed by an unmapped character was normalized: three characters.
C13_Witness ==
    /\ pc = "done"
    /\ call.fn = "_to_hankaku_kana"
    /\ Len(call.text) = 2
    /\ Len(ret.s) = 3
    /\ ret.s[3] = call.text[2]

(***************************************************************************)
(* C14.  A recipient name whose normalized encoding exceeds 30 bytes fails *)
(* validation (convert_row_to_record raises, with the reason "too long"),  *)
(* and in every data record produced bytes 50..79 are the whole encoding   *)
(* of the normalized name followed by spaces only: no name is truncated.   *)
(***************************************************************************)
\* The normalized, stripped recipient name of a row that has one.
NormalizedName(row) == to_hankaku_kana(strip(str(row["recipient_name"])))

\* field is the bytes name_bytes followed by spaces only.
HoldsWhole(field, name_bytes) ==
    /\ Len(name_bytes) <= Len(field)
    /\ field = name_bytes \o Repeat(<<32>>, Len(field) - Len(name_bytes))

NameNeverTruncated(row, r) ==
    /\ Len(Encode(NormalizedName(row))) > 30 =>
          /\ r.status = "ZenginFormatError"
          /\ \E k \in 1..Len(r.errors) : r.errors[k] = <<"too_long", "recipient_name">>
    /\ r.status = "ok" =>
          HoldsWhole(FieldBytes(r.record, 50, 30), Encode(NormalizedName(row)))

C14_NameNeverTruncated ==
    (pc = "done" /\ call.fn = "convert_row_to_record" /\ Present(call.row, "recipient_name"))
        => NameNeverTruncated(call.row, ret)

\* A name of 16 two-byte characters (32 bytes) was refused.
C14_Witness ==
    /\ pc = "done"
    /\ call.fn = "convert_row_to_record"
    /\ Present(call.row, "recipient_name")
    /\ Len(NormalizedName(call.row)) = 16
    /\ Len(Encode(NormalizedName(call.row))) = 32
    /\ ret.status = "ZenginFormatError"

(***************************************************************************)
(* C15.  validate_customer_data accepts an account category if and only if *)
(* it is a coded digit ("1", "2", "4", "9") or one of the names 普通       *)
(* (ordinary), 当座 (current), 貯蓄 (savings), and for an accepted value   *)
(* byte 42 of the data record is the digit code of that value.             *)
(***************************************************************************)
\* The digit code of each recognized category, as a byte.
CategoryCodes ==
    << <<<<49>>, 49>>, <<<<50>>, 50>>, <<<<52>>, 52>>, <<<<57>>, 57>>,
       <<<<26222, 36890>>, 49>>, <<<<24403, 24231>>, 50>>, <<<<36015, 33988>>, 52>> >>

Recognized(t) == \E k \in 1..Len(CategoryCodes) : CategoryCodes[k][1] = t

HasReason(errors, reason) == \E k \in 1..Len(errors) : errors[k] = reason

C15_CategoryAccepted ==
    (pc = "done" /\ call.fn \in {"validate_customer_data", "convert_row_to_record"}
       /\ Present(call.row, "account_type")) =>
        /\ call.fn = "validate_customer_data" =>
              (Recognized(strip(str(call.row["account_type"])))
                  <=> ~HasReason(ret.errors, <<"invalid", "account_type">>))
        /\ (call.fn = "convert_row_to_record" /\ ret.status = "ok") =>
              \E k \in 1..Len(CategoryCodes) :
                  /\ CategoryCodes[k][1] = strip(str(call.row["account_type"]))
                  /\ FieldBytes(ret.record, 42, 1) = <<CategoryCodes[k][2]>>

(***************************************************************************)
(* C16.  validate_customer_data accepts an amount if and only if, once the *)
(* thousands separators are removed, it is a positive integer (zero,       *)
(* negative and non-integer values fail), and bytes 80..89 of the data     *)
(* record hold exactly that integer.                                       *)
(***************************************************************************)
\* The text of an amount cell without separators and surrounding blanks.
AmountText(v) == strip(remove_commas(str(v)))

\* The digits of a text that is an integer numeral (an optional "+", then digits).
NumeralDigits(t) == IF t # <<>> /\ Head(t) = 43 THEN Tail(t) ELSE t

IsIntegerNumeral(t) ==
    /\ NumeralDigits(t) # <<>>
    /\ \A i \in 1..Len(NumeralDigits(t)) : IsDecimalChar(NumeralDigits(t)[i])

IntegerOf(t) == StripZeros([i \in 1..Len(NumeralDigits(t)) |-> DecimalValue(NumeralDigits(t)[i])])

\* The positive integer an amount cell stands for, if any: [ok, d].
PositiveInteger(v) ==
    IF v.t = "float"
    THEN [ok |-> ~v.neg /\ IsZero(v.f) /\ ~IsZero(v.d), d |-> StripZeros(v.d)]
    ELSE IF IsIntegerNumeral(AmountText(v))
    THEN [ok |-> ~IsZero(IntegerOf(AmountText(v))), d |-> IntegerOf(AmountText(v))]
    ELSE [ok |-> FALSE, d |-> <<0>>]

C16_AmountAccepted ==
    (pc = "done" /\ call.fn \in {"validate_customer_data", "convert_row_to_record"}
       /\ Present(call.row, "amount")) =>
        /\ call.fn = "validate_customer_data" =>
              (PositiveInteger(call.row["amount"]).ok
                  <=> /\ ~HasReason(ret.errors, <<"bad_format", "amount">>)
                      /\ ~HasReason(ret.errors, <<"not_positive", "amount">>))
        /\ (call.fn = "convert_row_to_record" /\ ret.status = "ok") =>
              /\ PositiveInteger(call.row["amount"]).ok
              /\ AllDigits(FieldBytes(ret.record, 80, 10))
              /\ FieldNumber(FieldBytes(ret.record, 80, 10))
                    = PositiveInteger(call.row["amount"]).d

(***************************************************************************)
(* C17.  Bank code, branch code and account number pass validation if and  *)
(* only if they consist of decimal digits only (the blanks around the      *)
(* value aside) and have at most 4, 3 and 7 digits.                        *)
(***************************************************************************)
CodeLimits == << <<"bank_code", 4>>, <<"branch_code", 3>>, <<"account_number", 7>> >>

IsDecimalCode(t, max_digits) ==
    /\ t # <<>>
    /\ \A i \in 1..Len(t) : IsDecimalChar(t[i])
    /\ Len(t) <= max_digits

ReasonsAbout(errors, field) == SelectSeq(errors, LAMBDA e : e[2] = field)

C17_CodesAccepted ==
    (pc = "done" /\ call.fn = "validate_customer_data") =>
        \A k \in 1..Len(CodeLimits) :
            Present(call.row, CodeLimits[k][1]) =>
                (IsDecimalCode(strip(str(call.row[CodeLimits[k][1]])), CodeLimits[k][2])
                    <=> ReasonsAbout(ret.errors, CodeLimits[k][1]) = <<>>)

(***************************************************************************)
(* C18.  validate_customer_data runs every rule on the row, whatever the   *)
(* other rules found: the reasons it returns about a field are exactly the *)
(* reasons the same cell gets in an otherwise valid row, a missing or NaN  *)
(* required field has its own reason, no reason is reported twice, every   *)
(* reason is about a validated field, and the row is reported valid        *)
(* exactly when the list of reasons is empty.                              *)
(***************************************************************************)
ValidatedFields ==
    {"bank_code", "branch_code", "account_number", "account_type", "amount",
     "recipient_name"}

\* The valid row with the cell of one field taken from row (or that column
\* missing when row does not have it).
OnlyCell(row, field) ==
    IF field \in DOMAIN row
    THEN [RowYamada EXCEPT ![field] = row[field]]
    ELSE [c \in AllColumns \ {field} |-> RowYamada[c]]

NoReasonTwice(errors) ==
    \A i, j \in 1..Len(errors) : errors[i] = errors[j] => i = j

\* The fields of row that alone make an otherwise valid row fail.
DefectiveFields(row) ==
    {f \in ValidatedFields : validate_customer_data(OnlyCell(row, f)) # <<>>}

EveryRuleRuns(row, errors) ==
    /\ \A f \in ValidatedFields :
          ReasonsAbout(errors, f) = ReasonsAbout(validate_customer_data(OnlyCell(row, f)), f)
    /\ \A k \in 1..Len(required_fields) :
          HasReason(errors, <<"required", required_fields[k]>>)
              <=> ~Present(row, required_fields[k])
    /\ \A k \in 1..Len(errors) : errors[k][2] \in ValidatedFields
    /\ NoReasonTwice(errors)

FirstOffender(recs, encoding, i) ==
    /\ i \in 1..Len(recs)
    /\ EncodedLength(recs[i], encoding) # RECORD_LENGTH
    /\ \A j \in 1..(i - 1) : EncodedLength(recs[j], encoding) = RECORD_LENGTH

RECURSIVE FileImage(_, _, _, _)
FileImage(recs, n, encoding, newline) ==
    IF n = 0 THEN <<>>
    ELSE FileImage(recs, n - 1, encoding, newline)
            \o EncodeAs(recs[n], codec_of(encoding)) \o newline

C20_FileBytes ==
    (pc = "saved") =>
        /\ output.bytes = FileImage(result, Len(result), output.encoding, output.newline)
        /\ Len(output.bytes) = Len(result) * (RECORD_LENGTH + Len(output.newline))

(***************************************************************************)
(* C24.  For every row validate_customer_data reports valid,               *)
(* convert_row_to_record returns a Data record of 120 bytes and raises     *)
(* nothing, whatever the optional cells hold (a value, an empty string,    *)
(* NaN, or no column at all).                                              *)
(***************************************************************************)
C24_ValidRowsConvert ==
    (pc = "done" /\ call.fn = "convert_row_to_record"
        /\ validate_customer_data(call.row) = <<>>) =>
        /\ ret.status = "ok"
        /\ Len(Encode(ret.record)) = RECORD_LENGTH

(***************************************************************************)
(* C25.  When _pad_string cuts a value inside a two-byte character, it     *)
(* gives up at most two bytes, keeps the whole characters before the cut,  *)
(* and fills the bytes given up with the fill character of the call, on   *)
(* the right of the value for align "left" and on its left for "right".    *)
(***************************************************************************)
\* The first length bytes of the value end inside a two-byte character.
CutInsideCharacter(value, length) ==
    /\ Len(Encode(value)) > length
    /\ ~Decode(Take(Encode(value), length)).ok

\* b is the bytes kept, with the bytes given up filled by fill on the side
\* of the alignment.
FilledOnSide(b, kept, fill, length, align) ==
    /\ length - Len(kept) \in 1..2
    /\ b = IF align = "right"
           THEN Repeat(fill, length - Len(kept)) \o kept
           ELSE kept \o Repeat(fill, length - Len(kept))

C25_BackOffFilled ==
    (pc = "done" /\ call.fn = "_pad_string" /\ Len(Encode(call.fill_char)) = 1
        /\ CutInsideCharacter(call.value, call.length)) =>
        /\ ret.ok
        /\ \E k \in 0..Len(call.value) :
              /\ LongestFit(call.value, k, call.length)
              /\ FilledOnSide(Encode(ret.s), Encode(Take(call.value, k)),
                              Encode(call.fill_char), call.length, call.align)

(***************************************************************************)
(* C26.  The header of a returned batch carries the requester passed to    *)
(* convert_excel_to_zengin: the requester code in bytes 4..13 and the      *)
(* requester name, in half-width kana, in bytes 14..53, both packed to the *)
(* left with spaces; bytes 54..57 hold a date, four digits MMDD.           *)
(***************************************************************************)
\* The bytes of a text packed to the left of a field of length bytes.
PackedLeft(text, length) ==
    Take(Encode(text) \o Repeat(<<32>>, length), length)

C26_HeaderRequester ==
    (Returned /\ call.fn = "convert_excel_to_zengin") =>
        /\ FieldBytes(result[1], 4, 10) = PackedLeft(call.requester_code, 10)
        /\ FieldBytes(result[1], 14, 40)
              = PackedLeft(to_hankaku_kana(call.requester_name), 40)
        /\ AllDigits(FieldBytes(result[1], 54, 4))

(***************************************************************************)
(* C28.  Every failure convert_excel_to_zengin records, and every failure  *)
(* the error it raises lists, is tagged with the ordinal of its row, the   *)
(* header row of the sheet counted: the data row at index i (from 0) is    *)
(* row i + 2; the failures are listed in the order of the rows.            *)
(***************************************************************************)
\* The positions (from 1) of the rows among the first n that are not converted.
FailedRows(n) == SelectSeq([i \in 1..n |-> i], RowFails)

\* Entry k of errs is about the k-th position of failed, tagged index + 2.
TaggedInOrder(errs, failed) ==
    /\ Len(errs) <= Len(failed)
    /\ \A k \in 1..Len(errs) : errs[k].row = (failed[k] - 1) + 2

C28_RowOrdinals ==
    /\ error_rows # <<>> =>
          /\ Len(error_rows) = Len(FailedRows(idx))
          /\ TaggedInOrder(error_rows, FailedRows(idx))
    /\ error.msg = "conversion_errors" =>
          /\ error.rows # <<>>
          /\ TaggedInOrder(error.rows, FailedRows(Len(df)))

\* A sheet of three rows of which the first and the third fail: the error
\* raised lists row 2, then row 4.
C28_Witness ==
    /\ pc = "raised" /\ error.msg = "conversion_errors"
    /\ Len(df) = 3 /\ RowFails(1) /\ ~RowFails(2) /\ RowFails(3)
    /\ Len(error.rows) = 2
    /\ error.rows[1].row = 2
    /\ error.rows[2].row = 4

(***************************************************************************)
(* C29.  convert_excel_to_zengin never returns a batch without data        *)
(* records: for a sheet without rows, and for a sheet of which no row was  *)
(* converted, it raises; every batch returned has at least 4 records.      *)
(***************************************************************************)
C29_NoEmptyBatch ==
    /\ Returned =>
          /\ Len(result) >= 4
          /\ records # <<>>
          /\ df # <<>>
    /\ (pc \notin {"convert", "loop"} /\ (df = <<>> \/ records = <<>>)) =>
          /\ pc \in {"raised", "redirected"}
          /\ error.msg \in {"empty_file", "no_convertible_data"}
          /\ result = <<>>

\* A sheet with rows of which none was converted: the conversion raised.
C29_Witness ==
    /\ pc = "raised"
    /\ Len(df) = 2
    /\ records = <<>>
    /\ error.msg = "no_convertible_data"
    /\ result = <<>>

(***************************************************************************)
(* C21.  The file name of save_zengin_file is unique per write: two calls  *)
(* on the same directory that have both returned have returned different   *)
(* paths, and the file a call returned holds the records of that call (no  *)
(* other call has written over it).                                        *)
(***************************************************************************)
\* The bytes of the file written from all the records of request p.
SavedImage(p) ==
    written_bytes(savers[p].records, Len(savers[p].records),
                  open_codec(savers[p].encoding), savers[p].newline)

C21_UniqueNames ==
    \A p \in SaveRequests : \A q \in SaveRequests :
        (p # q /\ savers[p].pc = "returned" /\ savers[q].pc = "returned") =>
            /\ savers[p].ret # savers[q].ret
            /\ files.names[savers[p].ret] = SavedImage(p)

C27_NoTruncatedFile ==
    \A p \in SaveRequests :
        /\ savers[p].pc \in {"returned", "raised"} => ~savers[p].open
        /\ (savers[p].pc = "raised" /\ savers[p].error.msg = "encoding_error") =>
              \/ savers[p].path \notin DOMAIN files.names
              \/ \A n \in 0..(Len(savers[p].records) - 1) :
                    files.names[savers[p].path] #
                        written_bytes(savers[p].records, n,
                                      open_codec(savers[p].encoding), savers[p].newline)

(***************************************************************************)
(* C23.  When pos_sales holds rows for the POS and day of the first        *)
(* incoming record, save_pdf_data_to_db replaces them by the incoming      *)
(* records, reporting overwritten = number of incoming records and         *)
(* inserted = skipped = 0, only if overwrite is true and the incoming      *)
(* reported_at is greater than the stored one, and does so then unless the *)
(* database or a record fails; in every other case the stored rows are     *)
(* left as they were and skipped = number of incoming records, inserted =  *)
(* overwritten = 0.                                                        *)
(***************************************************************************)
\* The call has returned and had found stored rows.
ReturnedOnStored == pos_call.pc = "returned" /\ pos_call.existing_records # <<>>

\* The rows stored now for the POS and day of the first incoming record.
StoredNow ==
    filter_by(pos_sales, pos_call.sales_records[1].pos_number,
              pos_call.sales_records[1].sale_date)

\* Every incoming record has every key.
IncomingComplete ==
    \A i \in 1..Len(pos_call.sales_records) :
        RecordKeys \subseteq DOMAIN pos_call.sales_records[i]

\* The incoming records as rows.
IncomingRows ==
    [i \in 1..Len(pos_call.sales_records) |->
        PosSales(pos_call.sales_records[i], pos_call.pdf_filename)]

\* The incoming report time is a text greater than the stored one.
IncomingNewer ==
    /\ pos_call.sales_records[1].reported_at # None
    /\ TextGreater(pos_call.sales_records[1].reported_at.s,
                   pos_call.existing_records[1].reported_at.s)

Replaced ==
    /\ IncomingComplete
    /\ StoredNow = IncomingRows
    /\ pos_call.stats = [inserted |-> 0, skipped |-> 0,
                         overwritten |-> Len(pos_call.sales_records)]

Skipped ==
    /\ StoredNow = pos_call.existing_records
    /\ pos_call.stats = [inserted |-> 0, skipped |-> Len(pos_call.sales_records),
                         overwritten |-> 0]

C23_OverwriteDecision ==
    ReturnedOnStored =>
        /\ Replaced => (pos_call.overwrite /\ IncomingNewer)
        /\ StoredNow # pos_call.existing_records => (pos_call.overwrite /\ IncomingNewer)
        /\ ~(pos_call.overwrite /\ IncomingNewer) => Skipped
        /\ (pos_call.overwrite /\ IncomingNewer /\ ~pos_call.db_error) => Replaced

\* The morning report of POS "1" is stored and the evening report with two
\* records has replaced it.
C23_Witness ==
    /\ ReturnedOnStored
    /\ pos_call.overwrite
    /\ pos_call.existing_records[1].reported_at = ReportedMorning
    /\ pos_call.sales_records[1].reported_at = ReportedEvening
    /\ Len(pos_call.sales_records) = 2
    /\ Replaced

(***************************************************************************)
(* C30.  An overwrite is atomic with respect to failure: after a call with *)
(* overwrite = true that had found stored rows has returned, the rows of   *)
(* the POS and day are the rows stored before or the incoming records; if  *)
(* the call failed they are the rows stored before; and the statistics     *)
(* count no record that was not stored.                                    *)
(***************************************************************************)
C30_AtomicOverwrite ==
    (ReturnedOnStored /\ pos_call.overwrite) =>
        /\ \/ StoredNow = pos_call.existing_records
           \/ IncomingComplete /\ StoredNow = IncomingRows
        /\ pos_call.db_error => StoredNow = pos_call.existing_records
        /\ pos_call.stats.overwritten + pos_call.stats.inserted <=
              (IF IncomingComplete /\ StoredNow = IncomingRows
               THEN Len(pos_call.sales_records) ELSE 0)

====
